---- MODULE Spec2Model ----
(***************************************************************************)
(* The interactive state machine of shelf (package tui): the bubbletea     *)
(* Model, its Update function, the background commands it dispatches and   *)
(* the article store it reads and writes.                                  *)
(*                                                                         *)
(* Go's Update has a value receiver: it maps a Model and a message to a    *)
(* new Model and a command.  The handlers below are therefore operators    *)
(* on a "world" record w:                                                  *)
(*   w.m      the Model struct                                             *)
(*   w.store  the *storage.Store the Model points to                       *)
(*   w.ext    what lives outside the process (browser windows, tmux panes, *)
(*            the position file, the wall clock)                           *)
(*   w.out    the commands the handler returns (tea.Cmd / tea.Batch)       *)
(* and the actions commit the world a handler returns.                     *)
(***************************************************************************)
EXTENDS Integers, Sequences, FiniteSets, Bags, TLC

VARIABLES
    m,        \* tui.Model
    store,    \* storage.Store
    ext,      \* the environment: windows, panes, position file, clock
    cmds,     \* bag of background commands that are running
    inbox,    \* bag of messages produced by commands, not yet handled
    fg,       \* the foreground process holding the terminal (tea.ExecProcess)
    sigint,   \* TRUE while an interrupt-generated QuitMsg is on its way
    quit,     \* TRUE once the program has ended
    last,     \* history: the event of the last step
    hist      \* history: counters and logs that bound and observe a session

vars == <<m, store, ext, cmds, inbox, fg, sigint, quit, last, hist>>

--------------------------------------------------------------------------
(* Bounds of the model. *)

\* fetchGen never exceeds this in a checked session
MaxGen == 3
\* number of URLs left uncommented in one import manifest
MaxImportLen == 2
\* number of imports started in a session
MaxImports == 2
\* number of tmux panes and of browser windows opened in a session
MaxPanes == 2
MaxWindows == 1
\* commands running plus messages waiting at any time
MaxInFlight == 2

None == "<nil>"

--------------------------------------------------------------------------
(* Strings. *)

HasPrefix(s, p) == Len(s) >= Len(p) /\ SubSeq(s, 1, Len(p)) = p

Contains(s, c) ==
    \E i \in 1..Len(s) : i + Len(c) - 1 <= Len(s) /\ SubSeq(s, i, i + Len(c) - 1) = c

RECURSIVE TrimLeft(_)
TrimLeft(s) == IF s # "" /\ SubSeq(s, 1, 1) \in {" ", "\t", "\n", "\r"} THEN TrimLeft(SubSeq(s, 2, Len(s))) ELSE s

RECURSIVE TrimRight(_)
TrimRight(s) ==
    IF s # "" /\ SubSeq(s, Len(s), Len(s)) \in {" ", "\t", "\n", "\r"} THEN TrimRight(SubSeq(s, 1, Len(s) - 1)) ELSE s

TrimSpace(s) == TrimRight(TrimLeft(s))

\* strings.ToLower on the letters the model's strings use
LowerChar(c) ==
    CASE c = "A" -> "a" [] c = "B" -> "b" [] c = "G" -> "g" [] c = "N" -> "n"
      [] c = "R" -> "r" [] c = "D" -> "d" [] OTHER -> c

RECURSIVE ToLower(_)
ToLower(s) == IF s = "" THEN "" ELSE LowerChar(SubSeq(s, 1, 1)) \o ToLower(SubSeq(s, 2, Len(s)))

IsAlnum(c) ==
    c \in {"a","b","c","d","e","f","g","h","i","j","k","l","m","n","o","p","q","r","s","t",
           "u","v","w","x","y","z","0","1","2","3","4","5","6","7","8","9"}

\* the loop of slugify: letters and digits are kept, every run of other
\* characters becomes one hyphen
RECURSIVE SlugLoop(_, _)
SlugLoop(s, lastWasHyphen) ==
    IF s = "" THEN ""
    ELSE LET c == SubSeq(s, 1, 1)
             rest == SubSeq(s, 2, Len(s))
         IN IF IsAlnum(c) THEN c \o SlugLoop(rest, FALSE)
            ELSE IF ~lastWasHyphen THEN "-" \o SlugLoop(rest, TRUE)
            ELSE SlugLoop(rest, TRUE)

RECURSIVE TrimHyphens(_)
TrimHyphens(s) ==
    IF s # "" /\ SubSeq(s, 1, 1) = "-" THEN TrimHyphens(SubSeq(s, 2, Len(s)))
    ELSE IF s # "" /\ SubSeq(s, Len(s), Len(s)) = "-" THEN TrimHyphens(SubSeq(s, 1, Len(s) - 1))
    ELSE s

SlugMaxLen == 60

slugify(s) ==
    LET t == TrimHyphens(SlugLoop(ToLower(s), FALSE))
        u == IF Len(t) > SlugMaxLen THEN TrimHyphens(SubSeq(t, 1, SlugMaxLen)) ELSE t
    IN IF u = "" THEN "untitled" ELSE u

generateDirName(title) == slugify(title)

\* the relative path SaveContent gives an article: articles/<slug>/index.md
ArticlePath(title) == "articles/" \o generateDirName(title) \o "/index.md"

\* byte order of the characters that occur in directory names
Alphabet == "-./0123456789abcdefghijklmnopqrstuvwxyz"

CharRank(c) ==
    IF \E i \in 1..Len(Alphabet) : SubSeq(Alphabet, i, i) = c
    THEN CHOOSE i \in 1..Len(Alphabet) : SubSeq(Alphabet, i, i) = c
    ELSE 0

RECURSIVE StrLess(_, _)
StrLess(a, b) ==
    IF b = "" THEN FALSE
    ELSE IF a = "" THEN TRUE
    ELSE LET ca == CharRank(SubSeq(a, 1, 1))
             cb == CharRank(SubSeq(b, 1, 1))
         IN IF ca # cb THEN ca < cb
            ELSE StrLess(SubSeq(a, 2, Len(a)), SubSeq(b, 2, Len(b)))

\* url.Parse(raw).Host for the URL shapes the model uses: the text between
\* "://" and the next "/"; no scheme gives an empty host
RECURSIVE UpTo(_, _)
UpTo(s, c) ==
    IF s = "" \/ SubSeq(s, 1, 1) = c THEN "" ELSE SubSeq(s, 1, 1) \o UpTo(SubSeq(s, 2, Len(s)), c)

RECURSIVE After(_, _)
After(s, p) ==
    IF Len(s) < Len(p) THEN None
    ELSE IF HasPrefix(s, p) THEN SubSeq(s, Len(p) + 1, Len(s))
    ELSE After(SubSeq(s, 2, Len(s)), p)

\* url.Parse fails on a space in the host (and on other invalid bytes)
ParseErr(raw) == After(raw, "://") # None /\ Contains(UpTo(After(raw, "://"), "/"), " ")

ParseHost(raw) == IF After(raw, "://") = None THEN "" ELSE UpTo(After(raw, "://"), "/")

--------------------------------------------------------------------------
(* storage.Store: the articles directory on disk and the cached scan.      *)
(* An ArticleMeta is                                                       *)
(*   [Title, Author, SourceURL, SavedAt, Tags, FilePath, Progress].        *)

hasTag(tags, tag) == \E i \in 1..Len(tags) : ToLower(tags[i]) = ToLower(tag)

IsArchived(a) == hasTag(a.Tags, "archived")

SourceDomain(a) == IF a.SourceURL = "" \/ ParseErr(a.SourceURL) THEN "" ELSE ParseHost(a.SourceURL)

\* the less function of the sort in scan and Search: non-archived first,
\* then newest first
scanLess(a, b) ==
    IF IsArchived(a) # IsArchived(b) THEN ~IsArchived(a) ELSE a.SavedAt > b.SavedAt

\* os.ReadDir: the entries in the order of their names
RECURSIVE ReadDir(_)
ReadDir(disk) ==
    IF disk = {} THEN <<>>
    ELSE LET a == CHOOSE a \in disk : \A b \in disk \ {a} : StrLess(a.FilePath, b.FilePath)
         IN <<a>> \o ReadDir(disk \ {a})

\* one step of the insertion sort sort.Slice runs on slices of at most 12
\* elements: the new element moves left while it is less than its neighbour
RECURSIVE Insert(_, _)
Insert(sorted, a) ==
    IF sorted = <<>> THEN <<a>>
    ELSE IF scanLess(a, sorted[Len(sorted)])
         THEN Insert(SubSeq(sorted, 1, Len(sorted) - 1), a) \o <<sorted[Len(sorted)]>>
         ELSE Append(sorted, a)

RECURSIVE SortSlice(_)
SortSlice(s) == IF s = <<>> THEN <<>> ELSE Insert(SortSlice(SubSeq(s, 1, Len(s) - 1)), s[Len(s)])

scan(disk) == [disk |-> disk, articles |-> SortSlice(ReadDir(disk))]

OnDisk(st, path) == \E a \in st.disk : a.FilePath = path

MetaAt(st, path) == CHOOSE a \in st.disk : a.FilePath = path

\* An extractor.ExtractResult: the title and the index.md content, whose
\* front matter carries the source URL and the time of extraction.
Result(title, url, savedAt) == [Title |-> title, SourceURL |-> url, SavedAt |-> savedAt]

ContentMeta(r) ==
    [Title |-> r.Title, Author |-> "", SourceURL |-> r.SourceURL, SavedAt |-> r.SavedAt,
     Tags |-> <<>>, FilePath |-> ArticlePath(r.Title), Progress |-> 0]

saveContent(st, r) ==
    scan({a \in st.disk : a.FilePath # ArticlePath(r.Title)} \cup {ContentMeta(r)})

\* SaveContent returns the store and the error: "" (nil), "exists"
\* (*ErrArticleExists) or an I/O error
SaveContent(st, r) ==
    IF OnDisk(st, ArticlePath(r.Title))
    THEN [store |-> st, err |-> "exists"]
    ELSE [store |-> saveContent(st, r), err |-> ""]

SaveContentForce(st, r) == [store |-> saveContent(st, r), err |-> ""]

Delete(st, path) == [store |-> scan({a \in st.disk : a.FilePath # path}), err |-> ""]

UpdateTags(st, path, tags) ==
    IF ~OnDisk(st, path)
    THEN [store |-> st, err |-> "reading article"]
    ELSE [store |-> scan({IF a.FilePath = path THEN [a EXCEPT !.Tags = tags] ELSE a : a \in st.disk}),
          err |-> ""]

List(st) == st.articles

RECURSIVE JoinTags(_)
JoinTags(tags) ==
    IF tags = <<>> THEN ""
    ELSE IF Len(tags) = 1 THEN tags[1]
    ELSE tags[1] \o "," \o JoinTags(Tail(tags))

SearchMatch(a, q) ==
    \/ Contains(ToLower(a.Title), q)
    \/ Contains(ToLower(a.Author), q)
    \/ Contains(ToLower(SourceDomain(a)), q)
    \/ Contains(ToLower(JoinTags(a.Tags)), q)

Search(st, query) ==
    IF query = "" THEN List(st)
    ELSE SortSlice(SelectSeq(st.articles, LAMBDA a : SearchMatch(a, ToLower(query))))

Reload(st) == [store |-> scan(st.disk), err |-> ""]

GetFilePath(relPath) == "/data/" \o relPath


\* UpdateProgress records the line an article was last read at
UpdateProgress(st, path, line) ==
    IF ~OnDisk(st, path)
    THEN [store |-> st, err |-> "reading article"]
    ELSE [store |-> scan({IF a.FilePath = path THEN [a EXCEPT !.Progress = line] ELSE a : a \in st.disk}),
          err |-> ""]

--------------------------------------------------------------------------
(* tui.Model and the messages and commands of the event loop. *)

NoResult == Result("", "", 0)

\* a variant of New that starts on the second row; the initial session is
\* tested against it
NewModelOnSecondRow ==
    [state |-> "List", height |-> 0,
     safariURL |-> "", safariWindow |-> 0,
     articles |-> <<>>, cursor |-> 1, scrollPos |-> 0, showArchived |-> FALSE,
     urlInput |-> "", searchInput |-> [value |-> "", active |-> FALSE],
     pendingResult |-> NoResult, overwritePath |-> "", overwriteTitle |-> "",
     pendingDeletePath |-> "", pendingDeleteTitle |-> "",
     importQueue |-> <<>>, importTotal |-> 0, importDone |-> 0, importSkipped |-> 0,
     importErrors |-> <<>>,
     err |-> "", statusMsg |-> "",
     fetchGen |-> 0, tmuxPaneID |-> "", suppressQuit |-> FALSE]

\* New: the Model before refreshArticles has run
NewModel ==
    [state |-> "List", height |-> 0,
     safariURL |-> "", safariWindow |-> 0,
     articles |-> <<>>, cursor |-> 0, scrollPos |-> 0, showArchived |-> FALSE,
     urlInput |-> "", searchInput |-> [value |-> "", active |-> FALSE],
     pendingResult |-> NoResult, overwritePath |-> "", overwriteTitle |-> "",
     pendingDeletePath |-> "", pendingDeleteTitle |-> "",
     importQueue |-> <<>>, importTotal |-> 0, importDone |-> 0, importSkipped |-> 0,
     importErrors |-> <<>>,
     err |-> "", statusMsg |-> "",
     fetchGen |-> 0, tmuxPaneID |-> "", suppressQuit |-> FALSE]

positionFile == "/tmp/shelf-pos"

\* a tea.Cmd: what runs in the background and what it was started with
\* (job is history: the import that dispatched an importItem command)
Cmd(c) == [cmd |-> c, gen |-> 0, url |-> "", window |-> 0, path |-> "", line |-> 0, job |-> 0]

\* a tea.Msg; the fields a message type does not have keep their zero value
Msg(t) ==
    [type |-> t, gen |-> 0, result |-> NoResult, err |-> "", url |-> "", title |-> "",
     html |-> "", window |-> 0, skipped |-> FALSE, tabs |-> 0, warnings |-> 0,
     urls |-> <<>>, key |-> "", height |-> 0, job |-> 0]

World(mm, st, ex) == [m |-> mm, store |-> st, ext |-> ex, out |-> <<>>]

Emit(w, c) == [w EXCEPT !.out = Append(@, c)]

--------------------------------------------------------------------------
(* The list viewport. *)

\* Go's integer division truncates toward zero
GoDiv(a, b) == IF a >= 0 THEN a \div b ELSE -((-a) \div b)

ChromeHeight == 12
ItemHeight == 3
HelpGridRows == 8

helpGridHeight(mm) == IF mm.state # "Help" THEN 0 ELSE HelpGridRows

calcVisibleItems(mm) ==
    LET listHeight == mm.height - ChromeHeight - helpGridHeight(mm)
        visibleItems == GoDiv(listHeight, ItemHeight)
    IN IF visibleItems < 1 THEN 1 ELSE visibleItems

\* a variant that brings the cursor into view from above only; the range of
\* the scroll offset is tested against it
ClampFromAboveOnly(cursor, scrollPos, visibleItems, totalItems) ==
    LET s1 == IF cursor < scrollPos THEN cursor ELSE scrollPos
        maxScroll == IF totalItems - visibleItems < 0 THEN 0 ELSE totalItems - visibleItems
        s3 == IF s1 > maxScroll THEN maxScroll ELSE s1
    IN IF s3 < 0 THEN 0 ELSE s3

\* a variant that puts the cursor on the first visible row at every move;
\* sticky scrolling is tested against it
ScrollFollowsCursor(cursor, scrollPos, visibleItems, totalItems) ==
    LET maxScroll == IF totalItems - visibleItems < 0 THEN 0 ELSE totalItems - visibleItems
        s3 == IF cursor > maxScroll THEN maxScroll ELSE cursor
    IN IF s3 < 0 THEN 0 ELSE s3

clampScroll(cursor, scrollPos, visibleItems, totalItems) ==
    LET s1 == IF cursor < scrollPos THEN cursor ELSE scrollPos
        s2 == IF cursor >= s1 + visibleItems THEN cursor - visibleItems + 1 ELSE s1
        maxScroll == IF totalItems - visibleItems < 0 THEN 0 ELSE totalItems - visibleItems
        s3 == IF s2 > maxScroll THEN maxScroll ELSE s2
    IN IF s3 < 0 THEN 0 ELSE s3

\* m.scrollPos = clampScroll(m.cursor, m.scrollPos, m.calcVisibleItems(), len(m.articles))
Reclamp(mm) ==
    [mm EXCEPT !.scrollPos = clampScroll(mm.cursor, mm.scrollPos, calcVisibleItems(mm), Len(mm.articles))]

\* a variant that, with archived articles shown, keeps the list on screen
\* instead of taking the store's; the refresh of the list is tested against it
FiltersShownList(mm, articles) ==
    IF mm.showArchived THEN mm.articles ELSE SelectSeq(articles, LAMBDA a : ~IsArchived(a))

applyArchiveFilter(mm, articles) ==
    IF mm.showArchived THEN articles ELSE SelectSeq(articles, LAMBDA a : ~IsArchived(a))

Max(a, b) == IF a > b THEN a ELSE b

\* a variant that takes the new list and leaves the cursor where it was;
\* the range of the cursor is tested against it
RefreshKeepsCursor(w) ==
    LET arts == IF w.m.searchInput.value # ""
                THEN applyArchiveFilter(w.m, Search(w.store, w.m.searchInput.value))
                ELSE applyArchiveFilter(w.m, List(w.store))
    IN [w EXCEPT !.m = Reclamp([w.m EXCEPT !.articles = arts])]

refreshArticles(w) ==
    LET arts == IF w.m.searchInput.value # ""
                THEN applyArchiveFilter(w.m, Search(w.store, w.m.searchInput.value))
                ELSE applyArchiveFilter(w.m, List(w.store))
        cur == IF w.m.cursor >= Len(arts) THEN Max(0, Len(arts) - 1) ELSE w.m.cursor
    IN [w EXCEPT !.m = Reclamp([w.m EXCEPT !.articles = arts, !.cursor = cur])]

\* the loops "for i, a := range m.articles { if match { m.cursor = i; break } }"
FirstIndex(arts, Match(_)) ==
    IF \E i \in 1..Len(arts) : Match(arts[i])
    THEN (CHOOSE i \in 1..Len(arts) : Match(arts[i]) /\ \A j \in 1..(i - 1) : ~Match(arts[j])) - 1
    ELSE -1

CursorTo(mm, Match(_)) ==
    IF FirstIndex(mm.articles, Match) >= 0
    THEN [mm EXCEPT !.cursor = FirstIndex(mm.articles, Match)]
    ELSE mm


--------------------------------------------------------------------------
(* The external editor (External Process Bridge).                          *)
(* ext.inTmux: $TMUX is set; ext.vim: isVimEditor($EDITOR);                *)
(* ext.panes: the live tmux panes this session opened, each with the file  *)
(* and line its editor shows; ext.posFile: the content of the position     *)
(* file, None when it does not exist.                                      *)

DigitVal(c) ==
    CASE c = "0" -> 0 [] c = "1" -> 1 [] c = "2" -> 2 [] c = "3" -> 3 [] c = "4" -> 4
      [] c = "5" -> 5 [] c = "6" -> 6 [] c = "7" -> 7 [] c = "8" -> 8 [] c = "9" -> 9
      [] OTHER -> -1

RECURSIVE AtoiDigits(_, _)
AtoiDigits(s, acc) ==
    IF s = "" THEN acc
    ELSE IF DigitVal(SubSeq(s, 1, 1)) < 0 THEN -1
    ELSE AtoiDigits(SubSeq(s, 2, Len(s)), 10 * acc + DigitVal(SubSeq(s, 1, 1)))

\* strconv.Atoi: [ok, n]
Atoi(s) ==
    LET neg == s # "" /\ SubSeq(s, 1, 1) = "-"
        body == IF s # "" /\ SubSeq(s, 1, 1) \in {"-", "+"} THEN SubSeq(s, 2, Len(s)) ELSE s
        n == IF body = "" THEN -1 ELSE AtoiDigits(body, 0)
    IN [ok |-> n >= 0, n |-> IF n < 0 THEN 0 ELSE IF neg THEN -n ELSE n]

tmuxPaneAlive(ex, paneID) == \E p \in ex.panes : p.id = paneID

isVimEditor(ex) == ex.vim

\* a variant that takes any line number the file gives; the handling of
\* the position file is tested against it
SavesAnyLine(w) ==
    IF w.ext.posFile = None THEN w
    ELSE LET data == TrimSpace(w.ext.posFile)
             w1 == [w EXCEPT !.ext.posFile = None]
             absPath == UpTo(data, ":")
             rest == After(data, ":")
             lineNum == Atoi(rest)
             hit == FirstIndex(List(w1.store), LAMBDA a : GetFilePath(a.FilePath) = absPath)
         IN IF rest = None THEN w1
            ELSE IF ~lineNum.ok THEN w1
            ELSE refreshArticles(
                   IF hit < 0 THEN w1
                   ELSE [w1 EXCEPT !.store =
                           UpdateProgress(w1.store, List(w1.store)[hit + 1].FilePath, lineNum.n).store])

savePositionFromFile(w) ==
    IF w.ext.posFile = None THEN w
    ELSE LET data == TrimSpace(w.ext.posFile)
             w1 == [w EXCEPT !.ext.posFile = None]
             absPath == UpTo(data, ":")
             rest == After(data, ":")
             lineNum == Atoi(rest)
             hit == FirstIndex(List(w1.store), LAMBDA a : GetFilePath(a.FilePath) = absPath)
         IN IF rest = None THEN w1
            ELSE IF ~lineNum.ok \/ lineNum.n <= 0 THEN w1
            ELSE refreshArticles(
                   IF hit < 0 THEN w1
                   ELSE [w1 EXCEPT !.store =
                           UpdateProgress(w1.store, List(w1.store)[hit + 1].FilePath, lineNum.n).store])

openArticleExecProcess(w, fpath, progress) ==
    Emit(w, [Cmd("execEditor") EXCEPT !.path = fpath, !.line = progress])

\* the pane the session remembers, after ":call writefile(...)" and ":e"
\* were sent to it
PaneOf(ex, paneID) == CHOOSE p \in ex.panes : p.id = paneID

StartLine(progress) == IF progress > 0 THEN progress ELSE 1

NewPaneID(ex) == "%" \o ToString(ex.npane + 1)

openSelectedArticle(w) ==
    IF Len(w.m.articles) = 0 \/ w.m.cursor >= Len(w.m.articles) THEN w
    ELSE LET article == w.m.articles[w.m.cursor + 1]
             fpath == GetFilePath(article.FilePath)
             \* clean up a stale pane ID
             w1 == IF w.m.tmuxPaneID # "" /\ ~tmuxPaneAlive(w.ext, w.m.tmuxPaneID)
                   THEN [w EXCEPT !.m.tmuxPaneID = ""] ELSE w
             pane == PaneOf(w1.ext, w1.m.tmuxPaneID)
             \* send-keys: the editor writes its position, then switches file
             saved == [w1 EXCEPT !.ext.posFile = pane.file \o ":" \o ToString(pane.line)]
             w2 == savePositionFromFile(saved)
             switched == [w2 EXCEPT !.ext.panes =
                            (@ \ {pane}) \cup {[pane EXCEPT !.file = fpath,
                                                            !.line = StartLine(article.Progress)]}]
             \* split-window
             id == NewPaneID(w1.ext)
             split == [w1 EXCEPT !.ext.panes = @ \cup {[id |-> id, file |-> fpath,
                                                         line |-> StartLine(article.Progress),
                                                         vim |-> isVimEditor(w1.ext)]},
                                 !.ext.npane = @ + 1,
                                 !.m.tmuxPaneID = id]
         IN IF ~w.ext.inTmux THEN openArticleExecProcess(w, fpath, article.Progress)
            ELSE IF w1.m.tmuxPaneID # "" /\ isVimEditor(w1.ext) THEN switched
            ELSE Emit(split, [Cmd("waitEditor") EXCEPT !.path = id])


--------------------------------------------------------------------------
(* Commands returned by the handlers. *)

Tick == Cmd("tick")

\* a variant that captures the generation before the increment; uniqueness
\* of generations is tested against it
CaptureStale(mm, url) == [Cmd("extractHTML") EXCEPT !.gen = mm.fetchGen - 1, !.url = url]

\* extractArticle and extractArticleFromHTML capture m.fetchGen when called
extractArticle(mm, url) == [Cmd("extract") EXCEPT !.gen = mm.fetchGen, !.url = url]

extractArticleFromHTML(mm, url) == [Cmd("extractHTML") EXCEPT !.gen = mm.fetchGen, !.url = url]

openInSafari(url) == [Cmd("openSafari") EXCEPT !.url = url]

\* extractSafariHTML captures m.safariURL and m.safariWindow when called
extractSafariHTML(mm) == [Cmd("safariHTML") EXCEPT !.url = mm.safariURL, !.window = mm.safariWindow]

gatherSafariTabs == Cmd("gatherTabs")

importExtractAndSave(url) == [Cmd("importItem") EXCEPT !.url = url]

--------------------------------------------------------------------------
(* Update: the completion events of fetches and of the driven browser. *)

HandleArticleExtracted(w, msg) ==
    IF msg.gen # w.m.fetchGen THEN w
    ELSE LET w1 == IF w.m.overwritePath # ""
                   THEN [w EXCEPT !.store = Delete(w.store, w.m.overwritePath).store,
                                  !.m.overwritePath = "", !.m.overwriteTitle = ""]
                   ELSE w
             sv == SaveContent(w1.store, msg.result)
             w2 == refreshArticles([w1 EXCEPT !.store = sv.store, !.m.state = "List",
                                              !.m.pendingResult = NoResult])
             m3 == Reclamp(CursorTo([w2.m EXCEPT !.err = ""],
                                    LAMBDA a : a.Title = msg.result.Title))
         IN IF sv.err = "exists"
            THEN [w1 EXCEPT !.m.state = "ConfirmOverwrite", !.m.pendingResult = msg.result]
            ELSE IF sv.err # ""
            THEN [w1 EXCEPT !.m.state = "List", !.m.err = sv.err]
            ELSE openSelectedArticle([w2 EXCEPT !.m = m3])

\* a variant without the generation guard; the properties of the guard are
\* tested against it
UnguardedExtractionErr(w, msg) ==
    [w EXCEPT !.m.state = "List", !.m.err = msg.err, !.m.statusMsg = ""]

HandleExtractionErr(w, msg) ==
    IF msg.gen # w.m.fetchGen THEN w
    ELSE [w EXCEPT !.m.state = "List", !.m.err = msg.err, !.m.statusMsg = ""]

HandleSafariOpened(w, msg) ==
    IF msg.err # ""
    THEN [w EXCEPT !.m.state = "List", !.m.err = "opening Safari: " \o msg.err,
                   !.m.safariURL = "", !.m.safariWindow = 0]
    ELSE [w EXCEPT !.m.safariWindow = msg.window]

\* a variant that enters Loading for the page source without starting the
\* extraction; leaving Loading is tested against it
SourceStartsNothing(w, msg) ==
    IF msg.err # ""
    THEN [w EXCEPT !.m.state = "List", !.m.err = msg.err]
    ELSE Emit([w EXCEPT !.m.state = "Loading", !.m.fetchGen = @ + 1], Tick)

HandleSafariHTMLExtracted(w, msg) ==
    IF msg.err # ""
    THEN [w EXCEPT !.m.state = "List", !.m.err = msg.err]
    ELSE LET m1 == [w.m EXCEPT !.state = "Loading", !.fetchGen = @ + 1]
         IN Emit(Emit([w EXCEPT !.m = m1], Tick), extractArticleFromHTML(m1, msg.url))

HandleArticleDeleted(w) ==
    LET w1 == refreshArticles(w) IN [w1 EXCEPT !.m.statusMsg = "Article deleted"]

HandleEditorFinished(w, msg) ==
    LET w1 == [w EXCEPT !.m.tmuxPaneID = "", !.m.err = IF msg.err # "" THEN msg.err ELSE @]
        w2 == savePositionFromFile(w1)
        rl == Reload(w2.store)
    IN refreshArticles([w2 EXCEPT !.store = rl.store,
                                  !.m.err = IF rl.err # "" THEN rl.err ELSE @])

HandleWindowSize(w, msg) == [w EXCEPT !.m = Reclamp([w.m EXCEPT !.height = msg.height])]

HandleTick(w) ==
    IF w.m.state \in {"Loading", "GatheringTabs", "Importing"} THEN Emit(w, Tick) ELSE w

\* "Update sub-components": a message no case of the switch takes
HandleOther(w) ==
    IF w.m.state # "Search" THEN w
    ELSE LET arts == applyArchiveFilter(w.m, Search(w.store, w.m.searchInput.value))
             cur == IF w.m.cursor >= Len(arts) THEN Max(0, Len(arts) - 1) ELSE w.m.cursor
         IN [w EXCEPT !.m = Reclamp([w.m EXCEPT !.articles = arts, !.cursor = cur])]


--------------------------------------------------------------------------
(* The batch import pipeline. *)

\* parseImportFile: the lines of the edited manifest that are neither blank
\* nor comments
RECURSIVE parseImportFile(_)
parseImportFile(lines) ==
    IF lines = <<>> THEN <<>>
    ELSE LET line == TrimSpace(lines[1])
         IN IF line = "" \/ HasPrefix(line, "#") THEN parseImportFile(Tail(lines))
            ELSE <<line>> \o parseImportFile(Tail(lines))

importSummary(mm) ==
    LET saved == mm.importDone - mm.importSkipped - Len(mm.importErrors)
        p1 == "Import complete: " \o ToString(saved) \o " saved"
        p2 == IF mm.importSkipped > 0 THEN p1 \o ", " \o ToString(mm.importSkipped) \o " skipped" ELSE p1
    IN IF Len(mm.importErrors) > 0
       THEN p2 \o ", " \o ToString(Len(mm.importErrors)) \o " failed"
       ELSE p2

\* msg.tabs is the number of tabs gathered, msg.warnings the number of warnings
\* a variant that reports zero tabs as an error only; the report of an
\* empty gathering is tested against it
ZeroTabsAlwaysError(w, msg) ==
    IF msg.tabs = 0
    THEN [w EXCEPT !.m.state = "List", !.m.err = "no Safari tabs found: warning"]
    ELSE Emit(w, [Cmd("execManifest") EXCEPT !.line = msg.tabs])

handleSafariTabsGathered(w, msg) ==
    IF msg.tabs = 0 /\ msg.warnings > 0
    THEN [w EXCEPT !.m.state = "List", !.m.err = "no Safari tabs found: warning"]
    ELSE IF msg.tabs = 0
    THEN [w EXCEPT !.m.state = "List", !.m.statusMsg = "No Safari tabs found"]
    ELSE Emit(w, [Cmd("execManifest") EXCEPT !.line = msg.tabs])

\* msg.urls is the content of the manifest file when the editor exited
handleImportEditorFinished(w, msg) ==
    LET urls == parseImportFile(msg.urls)
        m1 == [w.m EXCEPT !.importQueue = urls, !.importTotal = Len(urls), !.importDone = 0,
                          !.importSkipped = 0, !.importErrors = <<>>, !.state = "Importing"]
    IN IF msg.err # ""
       THEN [w EXCEPT !.m.state = "List", !.m.err = "editor: " \o msg.err]
       ELSE IF Len(urls) = 0
       THEN [w EXCEPT !.m.state = "List", !.m.statusMsg = "No URLs to import"]
       ELSE Emit(Emit([w EXCEPT !.m = m1], Tick), importExtractAndSave(urls[1]))

\* a variant that ends the batch at the first failure; the properties of
\* the pipeline are tested against it
AbortOnFailure(w, msg) ==
    LET queue == IF msg.err # "" \/ Len(w.m.importQueue) = 0 THEN <<>>
                 ELSE Tail(w.m.importQueue)
        m1 == [w.m EXCEPT !.importQueue = queue,
                          !.importErrors = IF msg.err # ""
                                           THEN Append(@, msg.url \o ": " \o msg.err) ELSE @,
                          !.importSkipped = IF msg.err = "" /\ msg.skipped THEN @ + 1 ELSE @,
                          !.importDone = @ + 1]
        w1 == refreshArticles([w EXCEPT !.m = [m1 EXCEPT !.state = "List"]])
    IN IF Len(queue) = 0
       THEN [w1 EXCEPT !.m.statusMsg = importSummary(w1.m)]
       ELSE Emit([w EXCEPT !.m = m1], importExtractAndSave(queue[1]))

handleImportArticleResult(w, msg) ==
    LET queue == IF Len(w.m.importQueue) > 0 THEN Tail(w.m.importQueue) ELSE w.m.importQueue
        m1 == [w.m EXCEPT !.importQueue = queue,
                          !.importErrors = IF msg.err # ""
                                           THEN Append(@, msg.url \o ": " \o msg.err) ELSE @,
                          !.importSkipped = IF msg.err = "" /\ msg.skipped THEN @ + 1 ELSE @,
                          !.importDone = @ + 1]
        w1 == refreshArticles([w EXCEPT !.m = [m1 EXCEPT !.state = "List"]])
    IN IF Len(queue) = 0
       THEN [w1 EXCEPT !.m.statusMsg = importSummary(w1.m)]
       ELSE Emit([w EXCEPT !.m = m1], importExtractAndSave(queue[1]))


--------------------------------------------------------------------------
(* Key handling.  A key is msg.String(): the name of a special key, or the *)
(* runes typed or pasted.                                                  *)

SpecialKeys == {"up", "down", "home", "end", "enter", "esc", "ctrl+c"}

IsText(k) == k \notin SpecialKeys

\* DefaultKeyMap
IsUp(k) == k \in {"up", "k"}
IsDown(k) == k \in {"down", "j"}
IsTop(k) == k \in {"g", "home"}
IsBottom(k) == k \in {"G", "end"}
IsOpen(k) == k = "enter"
IsAdd(k) == k = "a"
IsImport(k) == k = "i"
IsDelete(k) == k = "d"
IsArchive(k) == k = "x"
IsShowArchive(k) == k = "X"
IsSearch(k) == k = "/"
IsReload(k) == k = "r"
IsSafariReload(k) == k = "R"
IsQuit(k) == k \in {"q", "ctrl+c"}
IsCancel(k) == k = "esc"
IsSubmit(k) == k = "enter"
IsHelp(k) == k = "?"

\* the tags of an article without "archived"
RECURSIVE WithoutArchived(_)
WithoutArchived(tags) ==
    IF tags = <<>> THEN <<>>
    ELSE IF ToLower(tags[1]) # "archived" THEN <<tags[1]>> \o WithoutArchived(Tail(tags))
    ELSE WithoutArchived(Tail(tags))

Quoted(s) == "\"" \o s \o "\""

\* a variant of the submit that fetches whatever the store holds; the routing
\* of a submitted URL is tested against it
SubmitAlwaysFetches(w, url) ==
    LET m3 == [w.m EXCEPT !.state = "Loading", !.fetchGen = @ + 1]
    IN Emit(Emit([w EXCEPT !.m = m3], Tick), extractArticle(m3, url))

\* Submit in AddURL, once the URL has passed validation
SubmitURL(w, url) ==
    LET hit == FirstIndex(List(w.store), LAMBDA a : a.SourceURL = url)
        a == List(w.store)[hit + 1]
        ut == UpdateTags(w.store, a.FilePath, WithoutArchived(a.Tags))
        w1 == refreshArticles([w EXCEPT !.store = ut.store, !.m.state = "List",
                                        !.m.statusMsg = "Unarchived " \o Quoted(a.Title)])
        m2 == Reclamp(CursorTo(w1.m, LAMBDA ar : ar.FilePath = a.FilePath))
        m3 == [w.m EXCEPT !.state = "Loading", !.fetchGen = @ + 1]
    IN IF hit >= 0 /\ IsArchived(a)
       THEN IF ut.err # "" THEN [w EXCEPT !.m.err = ut.err, !.m.state = "List"]
            ELSE [w1 EXCEPT !.m = m2]
       ELSE IF hit >= 0
       THEN [w EXCEPT !.m.state = "ConfirmOverwrite", !.m.overwritePath = a.FilePath,
                      !.m.overwriteTitle = a.Title]
       ELSE Emit(Emit([w EXCEPT !.m = m3], Tick), extractArticle(m3, url))

\* a variant that ignores the submit of an empty URL and stays in AddURL;
\* the rejection of an empty URL is tested against it
IgnoresEmptySubmit(w, k) ==
    LET trimmed == TrimSpace(w.m.urlInput)
        rawURL == IF ~HasPrefix(trimmed, "http://") /\ ~HasPrefix(trimmed, "https://")
                  THEN "https://" \o trimmed ELSE trimmed
        shown == IF rawURL # trimmed THEN rawURL ELSE w.m.urlInput
    IN IF k = "ctrl+c"
       THEN IF w.m.urlInput # "" THEN [w EXCEPT !.m.urlInput = ""]
            ELSE [w EXCEPT !.m.state = "List"]
       ELSE IF IsCancel(k) THEN [w EXCEPT !.m.state = "List"]
       ELSE IF IsSubmit(k)
       THEN IF trimmed = "" THEN w
            ELSE IF ParseErr(rawURL) \/ ParseHost(rawURL) = "" \/ ~Contains(ParseHost(rawURL), ".")
            THEN [w EXCEPT !.m.urlInput = shown, !.m.err = "invalid URL: " \o trimmed,
                           !.m.state = "List"]
            ELSE SubmitURL([w EXCEPT !.m.urlInput = shown], rawURL)
       ELSE IF IsText(k) THEN [w EXCEPT !.m.urlInput = @ \o k]
       ELSE w

\* a variant that submits without validating the URL; the validation is
\* tested against it
SubmitsUnvalidated(w, k) ==
    LET trimmed == TrimSpace(w.m.urlInput)
        rawURL == IF ~HasPrefix(trimmed, "http://") /\ ~HasPrefix(trimmed, "https://")
                  THEN "https://" \o trimmed ELSE trimmed
        shown == IF rawURL # trimmed THEN rawURL ELSE w.m.urlInput
    IN IF k = "ctrl+c"
       THEN IF w.m.urlInput # "" THEN [w EXCEPT !.m.urlInput = ""]
            ELSE [w EXCEPT !.m.state = "List"]
       ELSE IF IsCancel(k) THEN [w EXCEPT !.m.state = "List"]
       ELSE IF IsSubmit(k)
       THEN IF trimmed = ""
            THEN [w EXCEPT !.m.state = "List", !.m.err = "URL cannot be empty"]
            ELSE SubmitURL([w EXCEPT !.m.urlInput = shown], rawURL)
       ELSE IF IsText(k) THEN [w EXCEPT !.m.urlInput = @ \o k]
       ELSE w

handleAddURLKeys(w, k) ==
    LET trimmed == TrimSpace(w.m.urlInput)
        rawURL == IF ~HasPrefix(trimmed, "http://") /\ ~HasPrefix(trimmed, "https://")
                  THEN "https://" \o trimmed ELSE trimmed
        \* SetValue(rawURL) runs only when the scheme was prepended
        shown == IF rawURL # trimmed THEN rawURL ELSE w.m.urlInput
    IN IF k = "ctrl+c"
       THEN IF w.m.urlInput # "" THEN [w EXCEPT !.m.urlInput = ""]
            ELSE [w EXCEPT !.m.state = "List"]
       ELSE IF IsCancel(k) THEN [w EXCEPT !.m.state = "List"]
       ELSE IF IsSubmit(k)
       THEN IF trimmed = ""
            THEN [w EXCEPT !.m.state = "List", !.m.err = "URL cannot be empty"]
            ELSE IF ParseErr(rawURL) \/ ParseHost(rawURL) = "" \/ ~Contains(ParseHost(rawURL), ".")
            THEN [w EXCEPT !.m.urlInput = shown, !.m.err = "invalid URL: " \o trimmed,
                           !.m.state = "List"]
            ELSE SubmitURL([w EXCEPT !.m.urlInput = shown], rawURL)
       ELSE IF IsText(k) THEN [w EXCEPT !.m.urlInput = @ \o k]
       ELSE w

\* searchInput.Update followed by the filtering of the list
SearchTyped(w, k) ==
    LET w1 == IF w.m.searchInput.active /\ IsText(k)
              THEN [w EXCEPT !.m.searchInput.value = @ \o k] ELSE w
    IN HandleOther(w1)

ResetList(w) ==
    LET w1 == refreshArticles(w) IN [w1 EXCEPT !.m.cursor = 0, !.m.scrollPos = 0]

\* a variant whose Cancel leaves the query in the search input; the end of a
\* search is tested against it
CancelKeepsQuery(w, k) ==
    IF k = "ctrl+c"
    THEN IF w.m.searchInput.value # ""
         THEN ResetList([w EXCEPT !.m.searchInput.value = ""])
         ELSE [w EXCEPT !.m.state = "List", !.m.searchInput.active = FALSE]
    ELSE IF IsCancel(k)
    THEN ResetList([w EXCEPT !.m.state = "List", !.m.searchInput.active = FALSE])
    ELSE IF IsSubmit(k)
    THEN [w EXCEPT !.m.state = "List", !.m.searchInput.active = FALSE]
    ELSE SearchTyped(w, k)

handleSearchKeys(w, k) ==
    IF k = "ctrl+c"
    THEN IF w.m.searchInput.value # ""
         THEN ResetList([w EXCEPT !.m.searchInput.value = ""])
         ELSE [w EXCEPT !.m.state = "List", !.m.searchInput.active = FALSE]
    ELSE IF IsCancel(k)
    THEN ResetList([w EXCEPT !.m.state = "List",
                             !.m.searchInput = [value |-> "", active |-> FALSE]])
    ELSE IF IsSubmit(k)
    THEN [w EXCEPT !.m.state = "List", !.m.searchInput.active = FALSE]
    ELSE SearchTyped(w, k)

handleConfirmOverwriteKeys(w, k) ==
    LET sv == SaveContentForce(w.store, w.m.pendingResult)
        w1 == refreshArticles([w EXCEPT !.store = sv.store, !.m.state = "List"])
        m2 == Reclamp(CursorTo([w1.m EXCEPT !.err = ""],
                               LAMBDA a : a.Title = w.m.pendingResult.Title))
        m3 == [w.m EXCEPT !.state = "Loading", !.fetchGen = @ + 1]
    IN IF k \in {"y", "Y"}
       THEN IF w.m.pendingResult # NoResult
            THEN IF sv.err # ""
                 THEN [w EXCEPT !.m.state = "List", !.m.err = sv.err, !.m.pendingResult = NoResult]
                 ELSE openSelectedArticle([w1 EXCEPT !.m = [m2 EXCEPT !.pendingResult = NoResult]])
            ELSE Emit(Emit([w EXCEPT !.m = m3], Tick), extractArticle(m3, TrimSpace(w.m.urlInput)))
       ELSE IF k \in {"n", "N", "esc", "ctrl+c"}
       THEN [w EXCEPT !.m.state = "List", !.m.suppressQuit = TRUE, !.m.pendingResult = NoResult,
                      !.m.overwritePath = "", !.m.overwriteTitle = ""]
       ELSE w

\* a variant of the confirmation that deletes the article under the cursor;
\* the confirmed delete is tested against it
DeletesUnderCursor(w, k) ==
    LET path == IF w.m.cursor < Len(w.m.articles) THEN w.m.articles[w.m.cursor + 1].FilePath
                ELSE w.m.pendingDeletePath
        dl == Delete(w.store, path)
        w1 == [w EXCEPT !.m.pendingDeletePath = "", !.m.pendingDeleteTitle = "", !.m.state = "List"]
    IN IF k \in {"y", "Y"}
       THEN Emit([w1 EXCEPT !.store = dl.store], [Cmd("deleted") EXCEPT !.path = path])
       ELSE IF k \in {"n", "N", "esc", "ctrl+c"}
       THEN [w1 EXCEPT !.m.suppressQuit = TRUE]
       ELSE w

handleConfirmDeleteKeys(w, k) ==
    LET path == w.m.pendingDeletePath
        dl == Delete(w.store, path)
        w1 == [w EXCEPT !.m.pendingDeletePath = "", !.m.pendingDeleteTitle = "", !.m.state = "List"]
    IN IF k \in {"y", "Y"}
       THEN IF dl.err # "" THEN [w1 EXCEPT !.m.err = dl.err]
            ELSE Emit([w1 EXCEPT !.store = dl.store], [Cmd("deleted") EXCEPT !.path = path])
       ELSE IF k \in {"n", "N", "esc", "ctrl+c"}
       THEN [w1 EXCEPT !.m.suppressQuit = TRUE]
       ELSE w


archiveSelectedArticle(w) ==
    LET article == w.m.articles[w.m.cursor + 1]
        tags == IF IsArchived(article) THEN WithoutArchived(article.Tags)
                ELSE Append(article.Tags, "archived")
        ut == UpdateTags(w.store, article.FilePath, tags)
        status == (IF IsArchived(article) THEN "Unarchived " ELSE "Archived ") \o Quoted(article.Title)
        w1 == refreshArticles([w EXCEPT !.store = ut.store, !.m.statusMsg = status])
    IN IF Len(w.m.articles) = 0 \/ w.m.cursor >= Len(w.m.articles) THEN w
       ELSE IF ut.err # "" THEN [w EXCEPT !.m.err = ut.err]
       ELSE [w1 EXCEPT !.m = Reclamp(CursorTo(w1.m, LAMBDA a : a.FilePath = article.FilePath))]

NoSelection(mm) == Len(mm.articles) = 0 \/ mm.cursor >= Len(mm.articles)

Selected(mm) == mm.articles[mm.cursor + 1]

\* the Reload key: re-fetch the selected article over its own file
ReloadSelected(w) ==
    LET article == Selected(w.m)
        m1 == [w.m EXCEPT !.urlInput = article.SourceURL, !.overwritePath = article.FilePath,
                          !.overwriteTitle = article.Title, !.state = "Loading",
                          !.fetchGen = @ + 1]
    IN IF NoSelection(w.m) THEN w
       ELSE IF article.SourceURL = ""
       THEN [w EXCEPT !.m.err = "no source URL for " \o Quoted(article.Title)]
       ELSE Emit(Emit([w EXCEPT !.m = m1], Tick), extractArticle(m1, article.SourceURL))

\* the SafariReload key: re-fetch the selected article through the browser
SafariReloadSelected(w) ==
    LET article == Selected(w.m)
        m1 == [w.m EXCEPT !.overwritePath = article.FilePath, !.overwriteTitle = article.Title,
                          !.safariURL = article.SourceURL, !.urlInput = article.SourceURL,
                          !.state = "SafariWaiting"]
    IN IF NoSelection(w.m) THEN w
       ELSE IF article.SourceURL = ""
       THEN [w EXCEPT !.m.err = "no source URL for " \o Quoted(article.Title)]
       ELSE Emit([w EXCEPT !.m = m1], openInSafari(article.SourceURL))

\* the "List state keys" switch, entered with the banner already cleared
ListKeys(w, k) ==
    IF IsQuit(k) THEN Emit(w, Cmd("quit"))
    ELSE IF IsUp(k)
    THEN [w EXCEPT !.m = Reclamp([w.m EXCEPT !.cursor = IF @ > 0 THEN @ - 1 ELSE @])]
    ELSE IF IsDown(k)
    THEN [w EXCEPT !.m = Reclamp([w.m EXCEPT !.cursor = IF @ < Len(w.m.articles) - 1 THEN @ + 1 ELSE @])]
    ELSE IF IsTop(k) THEN [w EXCEPT !.m.cursor = 0, !.m.scrollPos = 0]
    ELSE IF IsBottom(k)
    THEN [w EXCEPT !.m = Reclamp([w.m EXCEPT !.cursor = IF Len(w.m.articles) > 0
                                                        THEN Len(w.m.articles) - 1 ELSE @])]
    ELSE IF IsOpen(k) THEN openSelectedArticle(w)
    ELSE IF IsAdd(k) THEN [w EXCEPT !.m.state = "AddURL", !.m.urlInput = "", !.m.err = ""]
    ELSE IF IsImport(k)
    THEN Emit(Emit([w EXCEPT !.m.state = "GatheringTabs", !.m.err = ""], Tick), gatherSafariTabs)
    ELSE IF IsDelete(k)
    THEN IF NoSelection(w.m) THEN w
         ELSE [w EXCEPT !.m.pendingDeletePath = Selected(w.m).FilePath,
                        !.m.pendingDeleteTitle = Selected(w.m).Title,
                        !.m.state = "ConfirmDelete"]
    ELSE IF IsArchive(k) THEN archiveSelectedArticle(w)
    ELSE IF IsShowArchive(k) THEN refreshArticles([w EXCEPT !.m.showArchived = ~@])
    ELSE IF IsSearch(k)
    THEN ResetList([w EXCEPT !.m.state = "Search",
                             !.m.searchInput = [value |-> "", active |-> TRUE]])
    ELSE IF IsReload(k) THEN ReloadSelected(w)
    ELSE IF IsHelp(k) THEN [w EXCEPT !.m.state = "Help"]
    ELSE IF IsSafariReload(k) THEN SafariReloadSelected(w)
    ELSE w

IsAbort(k) == IsQuit(k) \/ IsCancel(k) \/ k = "ctrl+c"

\* a variant whose quit key in Loading quits the application; the keys of
\* Loading are tested against it
LoadingQuits(w, k) ==
    IF IsQuit(k) THEN Emit([w EXCEPT !.m.state = "List", !.m.fetchGen = @ + 1], Cmd("quit"))
    ELSE IF IsCancel(k)
    THEN [w EXCEPT !.m.state = "List", !.m.suppressQuit = TRUE, !.m.fetchGen = @ + 1]
    ELSE w

\* case stateLoading, stateGatheringTabs
LoadingKeys(w, k) ==
    IF IsAbort(k)
    THEN [w EXCEPT !.m.state = "List", !.m.suppressQuit = TRUE, !.m.fetchGen = @ + 1]
    ELSE w

\* case stateSafariWaiting; Close closes the window the handle names
SafariWaitingKeys(w, k) ==
    IF IsSubmit(k)
    THEN Emit(Emit([w EXCEPT !.m.state = "Loading"], Tick), extractSafariHTML(w.m))
    ELSE IF IsAbort(k)
    THEN [w EXCEPT !.ext.windows = @ \ {w.m.safariWindow},
                   !.m.state = "List", !.m.suppressQuit = TRUE,
                   !.m.overwritePath = "", !.m.overwriteTitle = "",
                   !.m.safariURL = "", !.m.safariWindow = 0]
    ELSE w

\* case stateImporting
\* a variant of the cancel that counts the item in flight as done; the
\* cancel's tallies are tested against it
CancelCountsInFlight(w, k) ==
    IF k \in {"esc", "q", "ctrl+c"}
    THEN [w EXCEPT !.m.importQueue = <<>>, !.m.state = "List", !.m.importDone = @ + 1]
    ELSE w

\* a variant in which esc does not stop an import; leaving a view by esc
\* is tested against it
ImportingIgnoresEsc(w, k) ==
    LET w1 == refreshArticles([w EXCEPT !.m.importQueue = <<>>, !.m.state = "List",
                                        !.m.suppressQuit = TRUE])
    IN IF IsQuit(k)
       THEN [w1 EXCEPT !.m.statusMsg = importSummary(w1.m) \o " (cancelled)"]
       ELSE w

ImportingKeys(w, k) ==
    LET w1 == refreshArticles([w EXCEPT !.m.importQueue = <<>>, !.m.state = "List",
                                        !.m.suppressQuit = TRUE])
    IN IF IsAbort(k)
       THEN [w1 EXCEPT !.m.statusMsg = importSummary(w1.m) \o " (cancelled)"]
       ELSE w

\* a variant that leaves the banner on screen; the keys of the list are
\* tested against it
KeepsBanner(w) == w

ClearBanner(w) == [w EXCEPT !.m.statusMsg = "", !.m.err = ""]

\* a variant in which the key that closes the help does nothing else; the
\* keys pressed in Help are tested against it
HelpSwallowsKey(w, k) ==
    CASE w.m.state = "AddURL" -> handleAddURLKeys(w, k)
      [] w.m.state = "Search" -> handleSearchKeys(w, k)
      [] w.m.state \in {"Loading", "GatheringTabs"} -> LoadingKeys(w, k)
      [] w.m.state = "SafariWaiting" -> SafariWaitingKeys(w, k)
      [] w.m.state = "Importing" -> ImportingKeys(w, k)
      [] w.m.state = "ConfirmOverwrite" -> handleConfirmOverwriteKeys(w, k)
      [] w.m.state = "ConfirmDelete" -> handleConfirmDeleteKeys(w, k)
      [] w.m.state = "Help" -> [w EXCEPT !.m.state = "List"]
      [] OTHER -> ListKeys(ClearBanner(w), k)

handleKeyMsg(w, k) ==
    CASE w.m.state = "AddURL" -> handleAddURLKeys(w, k)
      [] w.m.state = "Search" -> handleSearchKeys(w, k)
      [] w.m.state \in {"Loading", "GatheringTabs"} -> LoadingKeys(w, k)
      [] w.m.state = "SafariWaiting" -> SafariWaitingKeys(w, k)
      [] w.m.state = "Importing" -> ImportingKeys(w, k)
      [] w.m.state = "ConfirmOverwrite" -> handleConfirmOverwriteKeys(w, k)
      [] w.m.state = "ConfirmDelete" -> handleConfirmDeleteKeys(w, k)
      [] w.m.state = "Help" ->
           IF IsHelp(k) THEN [w EXCEPT !.m.state = "List"]
           ELSE ListKeys(ClearBanner([w EXCEPT !.m.state = "List"]), k)
      [] OTHER -> ListKeys(ClearBanner(w), k)

\* Update: the flag is cleared first, then the message is dispatched on its type
Update(w, msg) ==
    LET w0 == [w EXCEPT !.m.suppressQuit = FALSE, !.out = <<>>]
    IN CASE msg.type = "WindowSize" -> HandleWindowSize(w0, msg)
         [] msg.type = "Key" -> handleKeyMsg(w0, msg.key)
         [] msg.type = "Tick" -> HandleTick(w0)
         [] msg.type = "articleExtracted" -> HandleArticleExtracted(w0, msg)
         [] msg.type = "safariOpened" -> HandleSafariOpened(w0, msg)
         [] msg.type = "safariHTMLExtracted" -> HandleSafariHTMLExtracted(w0, msg)
         [] msg.type = "extractionErr" -> HandleExtractionErr(w0, msg)
         [] msg.type = "articleDeleted" -> HandleArticleDeleted(w0)
         [] msg.type = "editorFinished" -> HandleEditorFinished(w0, msg)
         [] msg.type = "safariTabsGathered" -> handleSafariTabsGathered(w0, msg)
         [] msg.type = "importEditorFinished" -> handleImportEditorFinished(w0, msg)
         [] msg.type = "importArticleResult" -> handleImportArticleResult(w0, msg)
         [] msg.type = "clearStatus" -> [w0 EXCEPT !.m.statusMsg = "", !.m.err = ""]
         [] OTHER -> HandleOther(w0)

\* InListState, read by the QuitMsg filter of main
InListState(mm) == mm.state = "List" /\ ~mm.suppressQuit


--------------------------------------------------------------------------
(* The event loop: one message at a time goes through Update, and the      *)
(* commands it returns start running.                                      *)

AddCmd(bag, c) ==
    IF c.cmd = "tick" /\ BagIn(c, bag) THEN bag ELSE bag (+) SetToBag({c})

RECURSIVE AddAll(_, _)
AddAll(bag, cs) == IF cs = <<>> THEN bag ELSE AddAll(AddCmd(bag, cs[1]), Tail(cs))

Take(bag, x) == bag (-) SetToBag({x})

IsExec(c) == c.cmd \in {"execEditor", "execManifest"}

IsFetch(c) == c.cmd \in {"extract", "extractHTML"}

NoFg == Cmd("none")

\* what the history keeps of a step: the message handled, the commands
\* the handler returned, the view state it ran in
Event(msg, out, from) == [type |-> msg.type, gen |-> msg.gen, out |-> out, from |-> from]

\* commands running, the spinner's tick aside
Running(bag) == BagCardinality(bag) - CopiesIn(Tick, bag)

\* history kept beside the program state
NextHist(w, msg) ==
    LET starts == msg.type = "importEditorFinished" /\ Len(w.out) = 2
        cancels == msg.type = "Key" /\ m.state = "Importing" /\ w.m.state = "List"
        fetches == SelectSeq(w.out, IsFetch)
    IN [hist EXCEPT
          !.gens = @ \o [i \in 1..Len(fetches) |-> fetches[i].gen],
          !.gathers = IF \E i \in 1..Len(w.out) : w.out[i].cmd = "gatherTabs" THEN @ + 1 ELSE @,
          !.job = IF starts THEN @ + 1 ELSE @,
          !.cancelled = IF starts THEN FALSE ELSE IF cancels THEN TRUE ELSE @,
          !.failed = IF starts THEN {} ELSE @]

Tagged(cs, job) ==
    [i \in 1..Len(cs) |-> IF cs[i].cmd = "importItem" THEN [cs[i] EXCEPT !.job = job] ELSE cs[i]]

\* the program handles msg: Update runs, its result becomes the state and
\* its commands are started
Background(w, job) == SelectSeq(Tagged(w.out, job), LAMBDA c : ~IsExec(c))

Commit(w, h, msg, cmdsRest, inboxRest) ==
    /\ w.m.fetchGen <= MaxGen
    /\ w.ext.npane <= MaxPanes
    /\ h.gathers <= MaxImports
    /\ m' = w.m
    /\ store' = w.store
    /\ ext' = w.ext
    /\ \E bag \in {AddAll(cmdsRest, Background(w, h.job))} :
         /\ Running(bag) + BagCardinality(inboxRest) <= MaxInFlight
         /\ cmds' = bag
    /\ inbox' = inboxRest
    /\ \E ex \in {SelectSeq(w.out, IsExec)} : fg' = IF ex # <<>> THEN ex[1] ELSE fg
    /\ last' = Event(msg, w.out, m.state)
    /\ hist' = h
    /\ quit' = quit

HandleIn(ex0, msg, cmdsRest, inboxRest) ==
    /\ ~quit
    /\ fg = NoFg
    /\ \E w \in {Update(World(m, store, ex0), msg)} :
         \E h \in {NextHist(w, msg)} : Commit(w, h, msg, cmdsRest, inboxRest)

Handle(msg, cmdsRest, inboxRest) == HandleIn(ext, msg, cmdsRest, inboxRest)


--------------------------------------------------------------------------
(* Inputs of the model. *)

\* titles an extraction can return; "Alpha" and "alpha" share a slug
Titles == {"Alpha", "alpha", "Beta"}

Meta(title, url, savedAt, tags) ==
    [ContentMeta(Result(title, url, savedAt)) EXCEPT !.Tags = tags]

ArticleA == Meta("Alpha", "https://alpha.com/a", 1, <<>>)
ArticleB == Meta("Beta", "https://beta.com/b", 2, <<"archived">>)

\* the articles directory when the program starts
InitDisks == {{}, {ArticleA}, {ArticleA, ArticleB}}

InitExt(tmux, vim) ==
    [windows |-> {}, nwin |-> 0, panes |-> {}, npane |-> 0, posFile |-> None,
     clock |-> 2, inTmux |-> tmux, vim |-> vim]

InitHist == [gens |-> <<>>, gathers |-> 0, job |-> 0, cancelled |-> FALSE, failed |-> {}]

\* main: storage.New scans the directory, tui.New builds the Model
InitWith(disks, tmuxes, vims) ==
    /\ \E d \in disks, t \in tmuxes, v \in vims :
         /\ store = scan(d)
         /\ ext = InitExt(t, v)
         /\ m = refreshArticles(World(NewModel, scan(d), InitExt(t, v))).m
    /\ cmds = EmptyBag
    /\ inbox = EmptyBag
    /\ fg = NoFg
    /\ sigint = FALSE
    /\ quit = FALSE
    /\ last = Event(Msg("none"), <<>>, "List")
    /\ hist = InitHist

Init == InitWith(InitDisks, BOOLEAN, BOOLEAN)

--------------------------------------------------------------------------
(* Actions. *)

KeyMsg(k) == [Msg("Key") EXCEPT !.key = k]

\* the user presses a key; ctrl+c also raises an interrupt, which bubbletea
\* turns into a QuitMsg. Into a text input the user types by TypeText only
\* (a bound on the text)
PressKey(k) ==
    /\ m.state \in {"AddURL", "Search"} => k \in SpecialKeys
    /\ Handle(KeyMsg(k), cmds, inbox)
    /\ sigint' = (sigint \/ k = "ctrl+c")

\* text goes into an empty input only (a bound on what the user types)
TypeText(t) ==
    /\ \/ m.state = "AddURL" /\ m.urlInput = ""
       \/ m.state = "Search" /\ m.searchInput.value = ""
    /\ Handle(KeyMsg(t), cmds, inbox)
    /\ sigint' = sigint

Resize(h) ==
    /\ h # m.height
    /\ Handle([Msg("WindowSize") EXCEPT !.height = h], cmds, inbox)
    /\ sigint' = sigint

\* an extraction ends: with an error, or with a result stamped with the
\* time of extraction
FetchFails(c) ==
    /\ BagIn(c, cmds) /\ IsFetch(c)
    /\ Handle([Msg("extractionErr") EXCEPT !.gen = c.gen, !.err = "fetch failed"],
              Take(cmds, c), inbox)
    /\ sigint' = sigint

FetchSucceeds(c, title) ==
    /\ BagIn(c, cmds) /\ IsFetch(c)
    /\ HandleIn([ext EXCEPT !.clock = @ + 1],
                [Msg("articleExtracted") EXCEPT
                   !.gen = c.gen, !.result = Result(title, c.url, ext.clock + 1)],
                Take(cmds, c), inbox)
    /\ sigint' = sigint


TickArrives ==
    /\ BagIn(Tick, cmds)
    /\ Handle(Msg("Tick"), Take(cmds, Tick), inbox)
    /\ sigint' = sigint

\* safari.GatherTabs ends with some tabs and some warnings
TabsGathered(c, tabs, warnings) ==
    /\ BagIn(c, cmds) /\ c.cmd = "gatherTabs"
    /\ Handle([Msg("safariTabsGathered") EXCEPT !.tabs = tabs, !.warnings = warnings],
              Take(cmds, c), inbox)
    /\ sigint' = sigint

\* the command behind y in ConfirmDelete returns articleDeletedMsg
DeletedArrives(c) ==
    /\ BagIn(c, cmds) /\ c.cmd = "deleted"
    /\ Handle(Msg("articleDeleted"), Take(cmds, c), inbox)
    /\ sigint' = sigint

\* a message produced by a command that has ended is handled
Deliver(msg) ==
    /\ BagIn(msg, inbox)
    /\ Handle(msg, cmds, Take(inbox, msg))
    /\ sigint' = sigint

\* a step of the world outside the event loop: Update does not run
Outside(st, ex, cmdsNext, inboxNext, fgNext) ==
    /\ ~quit
    /\ store' = st
    /\ ext' = ex
    /\ cmds' = cmdsNext
    /\ inbox' = inboxNext
    /\ fg' = fgNext
    /\ last' = Event(Msg("none"), <<>>, m.state)
    /\ UNCHANGED <<m, sigint, quit>>

\* URLs of the tabs safari.GatherTabs finds
TabURL(i) == "https://t" \o ToString(i) \o ".com/p"

\* what extracting a tab's URL returns when it succeeds: the first two tabs
\* yield titles with the same slug
TabTitle(url) ==
    CASE url = TabURL(1) -> "Alpha" [] url = TabURL(2) -> "alpha" [] OTHER -> "Beta"

\* the goroutine of importExtractAndSave: Extract fails, or the result is
\* saved unless its slug exists
ImportItemFails(c) ==
    /\ BagIn(c, cmds) /\ c.cmd = "importItem"
    /\ hist' = [hist EXCEPT !.failed = IF c.job = hist.job THEN @ \cup {c.url} ELSE @]
    /\ Outside(store, ext, Take(cmds, c),
               inbox (+) SetToBag({[Msg("importArticleResult") EXCEPT
                                      !.url = c.url, !.err = "fetch failed", !.job = c.job]}),
               fg)

ImportItemRuns(c) ==
    /\ BagIn(c, cmds) /\ c.cmd = "importItem"
    /\ LET r == Result(TabTitle(c.url), c.url, ext.clock + 1)
           sv == SaveContent(store, r)
       IN Outside(sv.store, [ext EXCEPT !.clock = @ + 1], Take(cmds, c),
                  inbox (+) SetToBag({[Msg("importArticleResult") EXCEPT
                                         !.url = c.url, !.title = r.Title,
                                         !.skipped = (sv.err = "exists"), !.job = c.job]}),
                  fg)
    /\ hist' = hist

\* the manifest formatImportFile writes lists every URL commented out; the
\* user uncomments the first n of them
Manifest(tabs, n) ==
    <<"# Safari Import">> \o
    [i \in 1..tabs |-> IF i <= n THEN "\t" \o TabURL(i) ELSE "\t# " \o TabURL(i)]

\* the editor on the import manifest exits
ManifestEditorExits(n, err) ==
    /\ fg.cmd = "execManifest"
    /\ n \in 0..fg.line
    /\ Outside(store, ext, cmds,
               inbox (+) SetToBag({[Msg("importEditorFinished") EXCEPT
                                      !.urls = Manifest(fg.line, n), !.err = err]}),
               NoFg)
    /\ hist' = hist


\* safari.OpenURL in the goroutine of openInSafari
SafariOpens(c) ==
    /\ BagIn(c, cmds) /\ c.cmd = "openSafari"
    /\ ext.nwin < MaxWindows
    /\ Outside(store, [ext EXCEPT !.nwin = @ + 1, !.windows = @ \cup {ext.nwin + 1}],
               Take(cmds, c),
               inbox (+) SetToBag({[Msg("safariOpened") EXCEPT !.window = ext.nwin + 1]}),
               fg)
    /\ hist' = hist

SafariOpenFails(c) ==
    /\ BagIn(c, cmds) /\ c.cmd = "openSafari"
    /\ Outside(store, ext, Take(cmds, c),
               inbox (+) SetToBag({[Msg("safariOpened") EXCEPT !.err = "osascript failed"]}),
               fg)
    /\ hist' = hist

\* the goroutine of extractSafariHTML: TabSource, then Close on success
SafariSourceRead(c) ==
    /\ BagIn(c, cmds) /\ c.cmd = "safariHTML"
    /\ c.window \in ext.windows
    /\ Outside(store, [ext EXCEPT !.windows = @ \ {c.window}], Take(cmds, c),
               inbox (+) SetToBag({[Msg("safariHTMLExtracted") EXCEPT
                                      !.url = c.url, !.html = "<html>"]}),
               fg)
    /\ hist' = hist

SafariSourceFails(c) ==
    /\ BagIn(c, cmds) /\ c.cmd = "safariHTML"
    /\ Outside(store, ext, Take(cmds, c),
               inbox (+) SetToBag({[Msg("safariHTMLExtracted") EXCEPT
                                      !.url = c.url,
                                      !.err = "extracting HTML from Safari: no window"]}),
               fg)
    /\ hist' = hist

\* lines the reader may be on when the editor writes its position
EditorLines == {7}

\* the foreground editor (direct mode) exits; vim's VimLeave autocmd writes
\* the position file
EditorExits(line) ==
    /\ fg.cmd = "execEditor"
    /\ Outside(store,
               [ext EXCEPT !.posFile = IF ext.vim THEN fg.path \o ":" \o ToString(line) ELSE @],
               cmds, inbox (+) SetToBag({Msg("editorFinished")}), NoFg)
    /\ hist' = hist

WaitingEditors == {c \in BagToSet(cmds) : c.cmd = "waitEditor"}

RECURSIVE Waiters(_)
Waiters(S) ==
    IF S = {} THEN 0 ELSE LET c == CHOOSE c \in S : TRUE IN CopiesIn(c, cmds) + Waiters(S \ {c})

WithoutWaiters == [c \in BagToSet(cmds) \ WaitingEditors |-> CopiesIn(c, cmds)]

\* the editor of a tmux pane exits: the pane goes away and "tmux wait-for -S"
\* wakes every "tmux wait-for" on the channel
PaneEditorExits(p, line) ==
    /\ p \in ext.panes
    /\ Outside(store,
               [ext EXCEPT !.panes = @ \ {p},
                           !.posFile = IF p.vim THEN p.file \o ":" \o ToString(line) ELSE @],
               WithoutWaiters,
               IF Waiters(WaitingEditors) = 0 THEN inbox
               ELSE inbox (+) [x \in {Msg("editorFinished")} |-> Waiters(WaitingEditors)],
               fg)
    /\ hist' = hist

\* the filter main installs: a QuitMsg is dropped unless InListState
Filtered ==
    /\ ~quit
    /\ fg = NoFg
    /\ quit' = InListState(m)
    /\ last' = Event(Msg("Quit"), <<>>, m.state)
    /\ UNCHANGED <<m, store, ext, inbox, fg, hist>>

\* tea.Quit, returned for the Quit key in List
QuitArrives ==
    /\ BagIn(Cmd("quit"), cmds)
    /\ cmds' = Take(cmds, Cmd("quit"))
    /\ Filtered
    /\ sigint' = sigint

\* the QuitMsg bubbletea sends on an interrupt signal
InterruptArrives ==
    /\ sigint
    /\ sigint' = FALSE
    /\ Filtered
    /\ cmds' = cmds

Fetches == {c \in BagToSet(cmds) : IsFetch(c)}

--------------------------------------------------------------------------
(* Fetching: add-URL, reload, overwrite confirmation, browser capture. *)

FetchKeys == {"a", "enter", "r", "esc", "ctrl+c", "y", "n"}

FetchTexts == {"alpha.com/a"}

\* titles the extractor returns here: one that is on disk, one that is not
FetchTitles == {"Alpha", "Beta"}

\* the user of this specification opens no article from the list
NextFetch ==
    \/ \E k \in FetchKeys : (k = "enter" => m.state # "List") /\ PressKey(k)
    \/ \E t \in FetchTexts : TypeText(t)
    \/ \E c \in Fetches : FetchFails(c)
    \/ \E c \in Fetches, t \in FetchTitles : FetchSucceeds(c, t)
    \/ \E p \in ext.panes, l \in EditorLines : PaneEditorExits(p, l)
    \/ \E msg \in BagToSet(inbox) : Deliver(msg)
    \/ TickArrives
    \/ QuitArrives
    \/ InterruptArrives

SpecFetch == InitWith({{ArticleA}}, {TRUE}, {TRUE}) /\ [][NextFetch]_vars

--------------------------------------------------------------------------
(* Browser capture: Safari reload of the selected article. *)

SafariKeys == {"R", "enter", "esc", "ctrl+c", "y", "n"}

\* the page Safari shows extracts to the title of the article reloaded
SafariTitles == {"Alpha"}

NextSafari ==
    \/ \E k \in SafariKeys : (k = "enter" => m.state # "List") /\ PressKey(k)
    \/ \E c \in Fetches : FetchFails(c)
    \/ \E c \in Fetches, t \in SafariTitles : FetchSucceeds(c, t)
    \/ \E c \in BagToSet(cmds) : SafariOpens(c)
    \/ \E c \in BagToSet(cmds) : SafariOpenFails(c)
    \/ \E c \in BagToSet(cmds) : SafariSourceRead(c)
    \/ \E c \in BagToSet(cmds) : SafariSourceFails(c)
    \/ \E p \in ext.panes, l \in EditorLines : PaneEditorExits(p, l)
    \/ \E msg \in BagToSet(inbox) : Deliver(msg)
    \/ TickArrives
    \/ QuitArrives
    \/ InterruptArrives

SpecSafari == InitWith({{ArticleA}}, {TRUE}, {TRUE}) /\ [][NextSafari]_vars

--------------------------------------------------------------------------
(* Every place a fetch is dispatched from: add-URL submit, reload,         *)
(* re-fetch on confirmed overwrite, extraction from the browser's HTML.    *)

GenKeys == {"a", "enter", "r", "R", "esc", "y"}

NextGen ==
    \/ \E k \in GenKeys : (k = "enter" => m.state # "List") /\ PressKey(k)
    \/ \E t \in FetchTexts : TypeText(t)
    \/ \E c \in Fetches : FetchFails(c)
    \/ \E c \in Fetches, t \in SafariTitles : FetchSucceeds(c, t)
    \/ \E c \in BagToSet(cmds) : SafariOpens(c)
    \/ \E c \in BagToSet(cmds) : SafariSourceRead(c)
    \/ \E p \in ext.panes, l \in EditorLines : PaneEditorExits(p, l)
    \/ \E msg \in BagToSet(inbox) : Deliver(msg)
    \/ TickArrives

SpecGen == InitWith({{ArticleA}}, {TRUE}, {TRUE}) /\ [][NextGen]_vars

--------------------------------------------------------------------------
(* Batch import from Safari tabs. *)

ImportKeys == {"i", "esc", "ctrl+c"}

\* safari.GatherTabs finds no tab or MaxImportLen tabs, with or without a
\* warning
TabCounts == {0, MaxImportLen}

EditorErrs == {"", "exit status 1"}

NextImport ==
    \/ \E k \in ImportKeys : PressKey(k)
    \/ \E c \in BagToSet(cmds), t \in TabCounts, wn \in {0, 1} : TabsGathered(c, t, wn)
    \/ \E n \in 0..MaxImportLen, e \in EditorErrs : ManifestEditorExits(n, e)
    \/ \E c \in BagToSet(cmds) : ImportItemFails(c)
    \/ \E c \in BagToSet(cmds) : ImportItemRuns(c)
    \/ \E msg \in BagToSet(inbox) : Deliver(msg)
    \/ TickArrives
    \/ InterruptArrives

SpecImport == InitWith({{}}, {TRUE}, {TRUE}) /\ [][NextImport]_vars

\* an import runs to its end under this specification: the user starts
\* imports and never cancels, every running item ends and every message
\* that waits is handled
NextImportFair ==
    \/ PressKey("i")
    \/ \E c \in BagToSet(cmds), t \in TabCounts, wn \in {0, 1} : TabsGathered(c, t, wn)
    \/ \E n \in 0..MaxImportLen, e \in EditorErrs : ManifestEditorExits(n, e)
    \/ \E c \in BagToSet(cmds) : ImportItemFails(c)
    \/ \E c \in BagToSet(cmds) : ImportItemRuns(c)
    \/ \E msg \in BagToSet(inbox) : Deliver(msg)
    \/ TickArrives

ItemEnds == \E c \in BagToSet(cmds) : ImportItemFails(c) \/ ImportItemRuns(c)

MessageHandled == \E msg \in BagToSet(inbox) : Deliver(msg)

SpecImportFair ==
    /\ InitWith({{}}, {TRUE}, {TRUE})
    /\ [][NextImportFair]_vars
    /\ WF_vars(ItemEnds)
    /\ WF_vars(MessageHandled)

--------------------------------------------------------------------------
(* Properties of the generation guard. *)

\* the messages the goroutine of a fetch command can return
Completions(c) ==
    {[Msg("extractionErr") EXCEPT !.gen = c.gen, !.err = "fetch failed"]} \cup
    {[Msg("articleExtracted") EXCEPT
        !.gen = c.gen, !.result = Result(t, c.url, ext.clock + 1)] : t \in Titles}

Here == World(m, store, ext)

Same(w) == w.m = m /\ w.store = store /\ w.ext = ext /\ w.out = <<>>

\* C1: handling a fetch completion whose generation differs from fetchGen
\* changes nothing the user can observe (view state, cursor, scroll, list,
\* banners, pending payloads, fetchGen, the quit-suppression flag, the
\* store) and dispatches no command
StaleCompletionChangesNothing ==
    \A c \in Fetches : \A msg \in Completions(c) :
        c.gen # m.fetchGen => Same(Update(Here, msg))

\* C2: fetchGen never decreases, no two dispatched fetches capture the same
\* generation, and at most one fetch in flight carries the current fetchGen
GensUnique ==
    /\ \A i, j \in 1..Len(hist.gens) : i # j => hist.gens[i] # hist.gens[j]
    /\ \A c, d \in Fetches : c.gen = m.fetchGen /\ d.gen = m.fetchGen => c = d
    /\ \A c \in Fetches : c.gen = m.fetchGen => CopiesIn(c, cmds) = 1

Pending ==
    {msg \in BagToSet(inbox) : msg.type = "safariHTMLExtracted"} \cup
    UNION {Completions(c) : c \in Fetches}

\* C3: after a cancel out of Loading the view is List, and no completion of
\* the cancelled operation (fetch result or page-source result) moves it
\* from List
CancelledStaysList ==
    m.state = "List" => \A msg \in Pending : Update(Here, msg).m.state = "List"

\* handling x, then y
Both(w, x, y) ==
    [Update(Update(w, x), y) EXCEPT !.out = Update(w, x).out \o @]

\* C4: with a cancelled fetch and a live fetch in flight, the state after
\* both completions is the same in either order of arrival
OrderIndependent ==
    \A a, b \in Fetches :
        a.gen # m.fetchGen /\ b.gen = m.fetchGen =>
            \A x \in Completions(a), y \in Completions(b) :
                Both(Here, x, y) = Both(Here, y, x)

\* the live fetch has been honoured while the cancelled one is in flight
LiveHonouredBeforeStale ==
    /\ last.type = "articleExtracted"
    /\ last.gen = m.fetchGen
    /\ \E a \in Fetches : a.gen < m.fetchGen

--------------------------------------------------------------------------
(* Properties of the import pipeline. *)

AbortKeys == {"esc", "q", "ctrl+c"}

\* C5: cancelling an import with a non-empty queue gives, in that step,
\* List, an empty queue, unchanged importDone, importSkipped and
\* importErrors, and the summary followed by " (cancelled)"
ImportCancelKeepsTallies ==
    m.state = "Importing" /\ m.importQueue # <<>> =>
        \A k \in AbortKeys :
            LET w == Update(Here, KeyMsg(k))
            IN /\ w.m.state = "List"
               /\ w.m.importQueue = <<>>
               /\ w.m.importDone = m.importDone
               /\ w.m.importSkipped = m.importSkipped
               /\ w.m.importErrors = m.importErrors
               /\ w.m.statusMsg = importSummary(m) \o " (cancelled)"
               /\ HasPrefix(w.m.statusMsg, "Import complete: ")

\* an import was cancelled after its first item and before its last
ImportCancelled ==
    /\ last.type = "Key"
    /\ last.from = "Importing"
    /\ m.state = "List"
    /\ m.importDone > 0
    /\ m.importDone < m.importTotal
    /\ Contains(m.statusMsg, " (cancelled)")

ImportItems == {c \in BagToSet(cmds) : c.cmd = "importItem"}

\* handleImportArticleResult has just found the queue empty: the view is
\* List and the status is the summary
Finalized ==
    /\ last.type = "importArticleResult"
    /\ last.out = <<>>
    /\ m.state = "List"
    /\ HasPrefix(m.statusMsg, "Import complete: ")

\* C6: at most one import extract-and-save command is in flight
OneImportItemInFlight ==
    /\ \A c, d \in ImportItems : c = d
    /\ \A c \in ImportItems : CopiesIn(c, cmds) = 1

\* C7: an import is finalized as complete (summary without "(cancelled)")
\* only when importDone = importTotal
CompleteOnlyWhenAllDone ==
    Finalized /\ ~Contains(m.statusMsg, "(cancelled)") => m.importDone = m.importTotal

\* results of the import cancelled last, no import having started since
LateResults ==
    {msg \in BagToSet(inbox) :
        msg.type = "importArticleResult" /\ hist.cancelled /\ msg.job = hist.job}

\* C8: the late result of the item in flight at cancel time leaves
\* importDone, importSkipped, importErrors, the status message and the
\* view state unchanged
LateResultChangesNothing ==
    \A msg \in LateResults :
        LET w == Update(Here, msg)
        IN /\ w.m.importDone = m.importDone
           /\ w.m.importSkipped = m.importSkipped
           /\ w.m.importErrors = m.importErrors
           /\ w.m.statusMsg = m.statusMsg
           /\ w.m.state = m.state

\* C9: in an import that is not cancelled, importDone + len(importQueue) =
\* importTotal, saved >= 0, and at finalization importDone = importTotal
\* with one importErrors entry for each URL of the import that failed
ImportAccounting ==
    /\ m.state = "Importing" => m.importDone + Len(m.importQueue) = m.importTotal
    /\ m.state = "Importing" => m.importDone - m.importSkipped - Len(m.importErrors) >= 0
    /\ Finalized /\ ~hist.cancelled
       => /\ m.importDone = m.importTotal
          /\ Len(m.importErrors) = Cardinality(hist.failed)
          /\ \A u \in hist.failed :
                \E i \in 1..Len(m.importErrors) : m.importErrors[i] = u \o ": fetch failed"

\* results that report a failure while the view is Importing and more than
\* one URL is queued
Failures ==
    {msg \in BagToSet(inbox) :
        /\ msg.type = "importArticleResult"
        /\ msg.err # ""
        /\ m.state = "Importing"
        /\ Len(m.importQueue) >= 2}

FailureKeepsGoing ==
    \A msg \in Failures :
        LET w == Update(Here, msg)
        IN /\ w.m.state = "Importing"
           /\ w.out = <<importExtractAndSave(m.importQueue[2])>>

\* C10: a failing item does not abort the batch (the view stays Importing
\* and the next URL is dispatched), and an import that is not cancelled
\* ends in List with importDone = importTotal
ImportRunsToEnd ==
    /\ []FailureKeepsGoing
    /\ (m.state = "Importing") ~> (m.state = "List" /\ m.importDone = m.importTotal)

\* the first item of an import failed and the next was dispatched
FailedItemPassed ==
    /\ last.type = "importArticleResult"
    /\ last.from = "Importing"
    /\ m.state = "Importing"
    /\ m.importDone = 1
    /\ Len(m.importErrors) = 1
    /\ Len(last.out) = 1

--------------------------------------------------------------------------
(* Overwrite protection: a store with two articles, one of them archived,  *)
(* in which the user adds a new URL and reloads the article listed.        *)

OverwriteKeys == {"a", "enter", "r", "esc", "y", "n"}

\* a URL no article of the store came from
NewURL == "new.com/n"

\* titles the extractor returns here: one whose slug is on disk, one that
\* is new
OverwriteTitles == {"Beta", "Gamma"}

NextOverwrite ==
    \/ \E k \in OverwriteKeys : (k = "enter" => m.state # "List") /\ PressKey(k)
    \/ TypeText(NewURL)
    \/ \E c \in Fetches : FetchFails(c)
    \/ \E c \in Fetches, t \in OverwriteTitles : FetchSucceeds(c, t)
    \/ \E p \in ext.panes, l \in EditorLines : PaneEditorExits(p, l)
    \/ \E msg \in BagToSet(inbox) : Deliver(msg)
    \/ TickArrives

SpecOverwrite == InitWith({{ArticleA, ArticleB}}, {TRUE}, {TRUE}) /\ [][NextOverwrite]_vars

\* results the fetch in flight with the current generation can return
LiveResults ==
    UNION {{msg \in Completions(c) : msg.type = "articleExtracted"} :
             c \in {c \in Fetches : c.gen = m.fetchGen}}

\* the result's slug is taken by an article other than the one being
\* re-fetched
SlugTaken(msg) ==
    /\ OnDisk(store, ArticlePath(msg.result.Title))
    /\ ArticlePath(msg.result.Title) # m.overwritePath

\* article a is in the store with its content: neither deleted nor replaced
\* (its tags and reading progress aside)
Kept(st, a) ==
    \E b \in st.disk :
        /\ b.FilePath = a.FilePath
        /\ b.Title = a.Title
        /\ b.SourceURL = a.SourceURL
        /\ b.SavedAt = a.SavedAt

\* the article at the result's path is the one the result describes
Saved(st, r) == Kept(st, ContentMeta(r))

\* C11: a live result whose slug exists gives ConfirmOverwrite with the
\* result pending; then n, N or esc gives List, no pending result and the
\* store as it was before the result arrived, and y gives List with the
\* result saved over the existing article
OverwriteConfirmed ==
    \A msg \in LiveResults :
        SlugTaken(msg) =>
            LET w1 == Update(Here, msg)
            IN /\ w1.m.state = "ConfirmOverwrite"
               /\ w1.m.pendingResult = msg.result
               /\ \A k \in {"n", "N", "esc"} :
                     LET w2 == Update(w1, KeyMsg(k))
                     IN /\ w2.m.state = "List"
                        /\ w2.m.pendingResult = NoResult
                        /\ w2.store = store
               /\ LET w3 == Update(w1, KeyMsg("y"))
                  IN /\ w3.m.state = "List"
                     /\ Saved(w3.store, msg.result)

\* the user adds NewURL from the list and the fetch returns title t
AddUnrelated(w, t) ==
    LET w1 == Update(w, KeyMsg("a"))
        w2 == Update(w1, KeyMsg(NewURL))
        w3 == Update(w2, KeyMsg("enter"))
        c == w3.out[2]
    IN Update(w3, [Msg("articleExtracted") EXCEPT
                     !.gen = c.gen, !.result = Result(t, c.url, w.ext.clock + 1)])

\* the user reloads the selected article and the fetch returns title t
ReloadThenResult(w, t) ==
    LET w1 == Update(w, KeyMsg("r"))
        c == w1.out[2]
    IN Update(w1, [Msg("articleExtracted") EXCEPT
                     !.gen = c.gen, !.result = Result(t, c.url, w.ext.clock + 1)])

\* C12: an honoured fetch result deletes or replaces no article but the one
\* the user asked to re-fetch: an add-URL fetch of a URL no article came
\* from keeps every article, a reload keeps every article but the selected
\* one, whatever a cancelled or failed reload left behind
NothingSilentlyDeleted ==
    m.state = "List" =>
        \A t \in Titles :
            /\ (\A b \in store.disk : b.SourceURL # "https://" \o NewURL) =>
                 \A a \in store.disk : Kept(AddUnrelated(Here, t).store, a)
            /\ ~NoSelection(m) /\ Selected(m).SourceURL # "" =>
                 \A a \in store.disk :
                     a.FilePath # Selected(m).FilePath => Kept(ReloadThenResult(Here, t).store, a)

--------------------------------------------------------------------------
(* Adding a URL: a store with a listed article and an older archived one,  *)
(* a user who types URLs and search queries.                               *)

ArticleC == Meta("Gamma", "https://gamma.com/c", 0, <<"go", "archived">>)

AddKeys == {"a", "/", "enter", "esc"}

\* what the user types as a URL: blanks, a word without a dot, a host with
\* a space, the URLs of the two articles, a new URL
AddTexts == {"  ", "alpha", "a b.c", "alpha.com/a", "gamma.com/c", NewURL}

\* what the user types as a search query
AddQueries == {"alpha"}

AddTitles == {"Delta"}

NextAdd ==
    \/ \E k \in AddKeys : (k = "enter" => m.state # "List") /\ PressKey(k)
    \/ \E t \in AddTexts : m.state = "AddURL" /\ TypeText(t)
    \/ \E t \in AddQueries : m.state = "Search" /\ TypeText(t)
    \/ \E c \in Fetches, t \in AddTitles : FetchSucceeds(c, t)
    \/ \E p \in ext.panes, l \in EditorLines : PaneEditorExits(p, l)
    \/ \E msg \in BagToSet(inbox) : Deliver(msg)
    \/ TickArrives

SpecAdd == InitWith({{ArticleA, ArticleC}}, {TRUE}, {TRUE}) /\ [][NextAdd]_vars

\* the user presses Enter
Submitted == Update(Here, KeyMsg("enter"))

\* the URL in the input, trimmed, and with the default scheme when it has none
Typed == TrimSpace(m.urlInput)

Normalized ==
    IF HasPrefix(Typed, "http://") \/ HasPrefix(Typed, "https://") THEN Typed
    ELSE "https://" \o Typed

ValidURL == ~ParseErr(Normalized) /\ Contains(ParseHost(Normalized), ".")

\* C13: submitting an empty or whitespace-only URL in AddURL dispatches no
\* fetch, leaves fetchGen and the store unchanged, and gives List with an
\* error
EmptySubmitRejected ==
    m.state = "AddURL" /\ Typed = "" =>
        /\ Submitted.out = <<>>
        /\ Submitted.m.fetchGen = m.fetchGen
        /\ Submitted.store = store
        /\ Submitted.m.state = "List"
        /\ Submitted.m.err # ""

\* a whitespace-only URL was submitted
BlankSubmitted ==
    /\ last.type = "Key"
    /\ last.from = "AddURL"
    /\ m.urlInput = "  "
    /\ m.state = "List"
    /\ m.err = "URL cannot be empty"

\* C14: submitting a URL that, with the default scheme prepended when it has
\* none, does not parse to a host containing a dot gives List with an error,
\* dispatches no fetch, and leaves fetchGen, the pending overwrite payload
\* and the store unchanged
InvalidSubmitRejected ==
    m.state = "AddURL" /\ Typed # "" /\ ~ValidURL =>
        /\ Submitted.m.state = "List"
        /\ Submitted.m.err # ""
        /\ Submitted.out = <<>>
        /\ Submitted.m.fetchGen = m.fetchGen
        /\ Submitted.m.overwritePath = m.overwritePath
        /\ Submitted.m.overwriteTitle = m.overwriteTitle
        /\ Submitted.m.pendingResult = m.pendingResult
        /\ Submitted.store = store

\* a URL whose host has no dot, and one that does not parse, were rejected
InvalidSubmitted ==
    /\ last.type = "Key"
    /\ last.from = "AddURL"
    /\ m.state = "List"
    /\ m.err \in {"invalid URL: alpha", "invalid URL: a b.c"}
    /\ last.out = <<>>

\* the articles whose source URL is the submitted URL
Matches == {a \in store.disk : a.SourceURL = Normalized}

Unarchived(a) == [a EXCEPT !.Tags = SelectSeq(@, LAMBDA t : ToLower(t) # "archived")]

OnCursor(mm, a) ==
    mm.cursor < Len(mm.articles) /\ mm.articles[mm.cursor + 1].FilePath = a.FilePath

Listed(mm, a) == \E i \in 1..Len(mm.articles) : mm.articles[i].FilePath = a.FilePath

\* what a valid submit does but for the cursor: an archived match is
\* unarchived in place, an active match asks for confirmation, no match
\* starts a fetch
Routed(w, OnArticle(_, _)) ==
    /\ Matches # {} /\ (\A a \in Matches : IsArchived(a)) =>
         \E a \in Matches :
             /\ w.m.state = "List"
             /\ w.out = <<>>
             /\ w.m.fetchGen = m.fetchGen
             /\ Unarchived(a) \in w.store.disk
             /\ w.m.statusMsg = "Unarchived \"" \o a.Title \o "\""
             /\ OnArticle(w.m, a)
    /\ (\E a \in Matches : ~IsArchived(a)) =>
         /\ w.m.state = "ConfirmOverwrite"
         /\ w.out = <<>>
         /\ w.m.fetchGen = m.fetchGen
    /\ Matches = {} =>
         /\ w.m.state = "Loading"
         /\ w.m.fetchGen = m.fetchGen + 1
         /\ \E i \in 1..Len(w.out) :
               IsFetch(w.out[i]) /\ w.out[i].url = Normalized /\ w.out[i].gen = w.m.fetchGen

\* C15 as stated: a valid URL of an archived article gives List without a
\* fetch, the tags minus "archived" persisted, the status "Unarchived
\* <title>" and the cursor on that article; an active match gives
\* ConfirmOverwrite; no match gives Loading with a fetch dispatched
SubmitRoutes ==
    m.state = "AddURL" /\ Typed # "" /\ ValidURL => Routed(Submitted, OnCursor)

\* C15, amended: the same, with the cursor on the unarchived article when
\* the list shows it (a search query it does not match keeps it out)
SubmitRoutesListed ==
    m.state = "AddURL" /\ Typed # "" /\ ValidURL =>
        Routed(Submitted, LAMBDA mm, a : Listed(mm, a) => OnCursor(mm, a))

\* the archived article was unarchived by submitting its URL and the cursor
\* moved to it
UnarchivedBySubmit ==
    /\ last.type = "Key"
    /\ last.from = "AddURL"
    /\ m.state = "List"
    /\ m.statusMsg = "Unarchived \"Gamma\""
    /\ Unarchived(ArticleC) \in store.disk
    /\ m.cursor = 1
    /\ OnCursor(m, ArticleC)

--------------------------------------------------------------------------
(* Sessions: the user browses, archives and deletes, quits, and starts the *)
(* program again on the directory the last session left.                   *)

ArticleD == Meta("Delta", "https://delta.com/d", 3, <<>>)

SessionDisks == InitDisks \cup {{ArticleA, ArticleB, ArticleC, ArticleD}}

SessionKeys == {"down", "d", "y", "n", "x", "X", "q"}

\* main, run again once the program has ended: storage.New scans the
\* directory and tui.New builds the Model; the commands of the old process
\* ended with it
Launch ==
    /\ quit
    /\ quit' = FALSE
    /\ store' = scan(store.disk)
    /\ m' = refreshArticles(World(NewModel, scan(store.disk), ext)).m
    /\ cmds' = EmptyBag
    /\ inbox' = EmptyBag
    /\ fg' = NoFg
    /\ sigint' = FALSE
    /\ last' = Event(Msg("launch"), <<>>, "List")
    /\ hist' = InitHist
    /\ ext' = ext

NextSession ==
    \/ \E k \in SessionKeys : PressKey(k)
    \/ \E c \in BagToSet(cmds) : DeletedArrives(c)
    \/ QuitArrives
    \/ Launch

SpecSession == InitWith(SessionDisks, {TRUE}, {TRUE}) /\ [][NextSession]_vars

\* the session New returns
InitialSession ==
    /\ m.state = "List"
    /\ m.cursor = 0
    /\ m.scrollPos = 0
    /\ m.searchInput.value = ""
    /\ m.overwritePath = "" /\ m.overwriteTitle = "" /\ m.pendingResult = NoResult
    /\ m.pendingDeletePath = "" /\ m.pendingDeleteTitle = ""
    /\ m.fetchGen = 0

\* C16: the session starts in List with cursor 0, scroll offset 0, an empty
\* search query, no pending confirmation payload and fetchGen 0, whatever
\* the store holds: at the first start and at every later start
StartsInList == InitialSession /\ [](last.type = "launch" => InitialSession)

\* the program was started on a directory of four articles, one of them
\* archived in an earlier session
LaunchedOnUsedStore ==
    /\ last.type = "launch"
    /\ Cardinality(store.disk) = 4
    /\ Len(m.articles) = 1
    /\ \E a \in store.disk : a.FilePath = ArticleD.FilePath /\ IsArchived(a)

\* keys without a meaning in ConfirmDelete
OtherKeys == {"x", "X", "d", "q", "a", "r", "i", "enter", "up", "down", "?"}

\* in ConfirmDelete: y deletes the article at the pending path, n, N, esc
\* and ctrl+c delete nothing, both give List with the pending path and
\* title cleared, any other key changes nothing
ConfirmDeleteKeys ==
    m.state = "ConfirmDelete" =>
        /\ \A k \in {"y", "Y"} :
              LET w == Update(Here, KeyMsg(k))
              IN /\ w.store.disk = {a \in store.disk : a.FilePath # m.pendingDeletePath}
                 /\ w.m.state = "List"
                 /\ w.m.pendingDeletePath = "" /\ w.m.pendingDeleteTitle = ""
        /\ \A k \in {"n", "N", "esc", "ctrl+c"} :
              LET w == Update(Here, KeyMsg(k))
              IN /\ w.store = store
                 /\ w.m.state = "List"
                 /\ w.m.pendingDeletePath = "" /\ w.m.pendingDeleteTitle = ""
        /\ \A k \in OtherKeys :
              LET w == Update(Here, KeyMsg(k))
              IN w.m = m /\ w.store = store /\ w.out = <<>>

\* the delete key makes the selected article the pending one and deletes
\* nothing
DeleteAsksFirst ==
    m.state = "List" /\ ~NoSelection(m) =>
        LET w == Update(Here, KeyMsg("d"))
        IN /\ w.m.state = "ConfirmDelete"
           /\ w.m.pendingDeletePath = Selected(m).FilePath
           /\ w.m.pendingDeleteTitle = Selected(m).Title
           /\ w.store = store

\* while the view stays ConfirmDelete the pending path stays the same
PendingKept ==
    m.state = "ConfirmDelete" /\ m'.state = "ConfirmDelete" =>
        m'.pendingDeletePath = m.pendingDeletePath /\ m'.pendingDeleteTitle = m.pendingDeleteTitle

\* C20: in ConfirmDelete y deletes exactly the article that was selected
\* when delete was pressed, also when the list was refreshed in between,
\* and gives List; n, N, esc and ctrl+c give List with the store unchanged;
\* both clear the pending path and title; any other key changes nothing
DeleteConfirmed == [](ConfirmDeleteKeys /\ DeleteAsksFirst) /\ [][PendingKept]_vars

\* a delete was confirmed after the list had been refreshed by the result
\* of an earlier delete: the list shows one article of an initial four, two
\* are deleted
DeletedAfterRefresh ==
    /\ last.type = "Key"
    /\ last.from = "ConfirmDelete"
    /\ m.state = "List"
    /\ Len(last.out) = 1
    /\ ~OnDisk(store, last.out[1].path)
    /\ Len(m.articles) = 1
    /\ m.articles[1].FilePath = last.out[1].path
    /\ Cardinality(store.disk) = 2

\* the archive key has just archived the selected article
JustArchived ==
    /\ last.type = "Key"
    /\ last.from \in {"List", "Help"}
    /\ m.state = "List"
    /\ HasPrefix(m.statusMsg, "Archived ")

\* C19: after archiving the selected article, toggling show-archived twice
\* gives the list the membership and order it had before the two toggles
TogglesRestoreList ==
    JustArchived =>
        LET w == Update(Update(Here, KeyMsg("X")), KeyMsg("X"))
        IN /\ w.m.articles = m.articles
           /\ w.m.showArchived = m.showArchived

\* an article was archived while the archived ones are shown, below an
\* article that is listed
ArchivedWhileShown ==
    /\ JustArchived
    /\ m.showArchived
    /\ m.cursor > 0
    /\ IsArchived(m.articles[m.cursor + 1])
    /\ ~IsArchived(m.articles[1])

--------------------------------------------------------------------------
(* The list viewport: four articles, two of them archived, a terminal the  *)
(* user resizes, the help grid.                                            *)

\* terminal heights: 18 rows show two articles, 21 rows three
BrowseHeights == {18, 21}

BrowseKeys == {"up", "down", "home", "end", "x", "X", "?"}

NextBrowse ==
    \/ \E k \in BrowseKeys : PressKey(k)
    \/ \E h \in BrowseHeights : Resize(h)

SpecBrowse == InitWith({{ArticleA, ArticleB, ArticleC, ArticleD}}, {TRUE}, {TRUE}) /\ [][NextBrowse]_vars

NavKeys == {"up", "down", "home", "end", "k", "j", "g", "G"}

\* sizes of the lists and viewports clampScroll is applied to directly
MaxItems == 5
MaxVisible == 4

\* S is within [0, max(0, N-V)] and the cursor c is within [S, S+V)
InView(c, S, V, N) == 0 <= S /\ S <= Max(0, N - V) /\ S <= c /\ c < S + V

\* C17: after up, down, top or bottom the scroll offset S satisfies
\* 0 <= S <= max(0, N-V) and S <= cursor < S+V, for the list and the
\* viewport of the session and for any N, V >= 1 and cursor within the list
ScrollInRange ==
    /\ m.state \in {"List", "Help"} =>
         \A k \in NavKeys :
             LET w == Update(Here, KeyMsg(k))
             IN InView(w.m.cursor, w.m.scrollPos, calcVisibleItems(w.m), Len(w.m.articles))
    /\ \A N \in 0..MaxItems, V \in 1..MaxVisible, c \in 0..MaxItems, S \in 0..MaxItems :
           c < Max(1, N) => InView(c, clampScroll(c, S, V, N), V, N)

\* the cursor moved out of the viewport below it and the viewport followed
ScrolledDown ==
    /\ last.type = "Key"
    /\ m.state = "List"
    /\ m.scrollPos > 0
    /\ m.cursor = m.scrollPos + calcVisibleItems(m) - 1
    /\ calcVisibleItems(m) >= 2
    /\ m.scrollPos < Len(m.articles) - calcVisibleItems(m)

\* x clamped to [0, max(0, N-V)]
Clamped(x, V, N) == Max(0, IF x > Max(0, N - V) THEN Max(0, N - V) ELSE x)

\* the offset S2 after a move to cursor c from offset S: S when c is in
\* the viewport and S in range, otherwise the nearest offset that shows c
Sticky(c, S, V, N, S2) ==
    IF InView(c, S, V, N) THEN S2 = S
    ELSE S2 = Clamped(IF c < S THEN c ELSE IF c >= S + V THEN c - V + 1 ELSE S, V, N)

\* C18: a cursor move leaves the scroll offset unchanged when the cursor is
\* still in the viewport and the offset in range; otherwise the offset
\* becomes cursor, or cursor-V+1, clamped
ScrollSticky ==
    /\ m.state \in {"List", "Help"} =>
         \A k \in NavKeys :
             LET w == Update(Here, KeyMsg(k))
             IN Sticky(w.m.cursor, m.scrollPos, calcVisibleItems(w.m), Len(w.m.articles),
                       w.m.scrollPos)
    /\ \A N \in 0..MaxItems, V \in 1..MaxVisible, c \in 0..MaxItems, S \in 0..MaxItems :
           c < Max(1, N) => Sticky(c, S, V, N, clampScroll(c, S, V, N))

\* the cursor moved up inside the viewport and the viewport stayed
MovedInsideViewport ==
    /\ last.type = "Key"
    /\ m.state = "List"
    /\ m.scrollPos > 0
    /\ m.cursor > m.scrollPos
    /\ m.cursor < m.scrollPos + calcVisibleItems(m) - 1

--------------------------------------------------------------------------
(* Searching: four articles, two of them archived; the user moves the      *)
(* cursor, shows the archived ones, searches, and ends the search.         *)

SearchKeys == {"down", "X", "/"}
SearchEndKeys == {"enter", "esc", "ctrl+c"}
SearchQueries == {"alpha", "go"}

NextSearch ==
    \/ \E k \in SearchKeys : m.state = "List" /\ PressKey(k)
    \/ \E k \in SearchEndKeys : m.state = "Search" /\ PressKey(k)
    \/ \E t \in SearchQueries : TypeText(t)
    \/ \E h \in BrowseHeights : Resize(h)
    \/ InterruptArrives

SpecSearch == InitWith({{ArticleA, ArticleB, ArticleC, ArticleD}}, {TRUE}, {TRUE}) /\ [][NextSearch]_vars

\* the store's list without the archived articles, unless they are shown
ArchiveFiltered(mm, st) == SelectSeq(List(st), LAMBDA a : mm.showArchived \/ ~IsArchived(a))

\* C21: in Search, enter and esc both go to List; esc also empties the
\* query, resets cursor and scroll offset to 0 and restores the
\* archive-filtered list; enter keeps the query, the filtered list and the
\* cursor
SearchEnds ==
    m.state = "Search" =>
        LET s == Update(Here, KeyMsg("enter"))
            c == Update(Here, KeyMsg("esc"))
        IN /\ s.m.state = "List" /\ c.m.state = "List"
           /\ c.m.searchInput.value = ""
           /\ c.m.cursor = 0 /\ c.m.scrollPos = 0
           /\ c.m.articles = ArchiveFiltered(m, c.store)
           /\ c.store = store
           /\ s.m.searchInput.value = m.searchInput.value
           /\ s.m.articles = m.articles
           /\ s.m.cursor = m.cursor /\ s.m.scrollPos = m.scrollPos
           /\ s.store = store

\* a search for a tag was submitted and List shows the one match
SearchSubmitted ==
    /\ last.type = "Key"
    /\ last.from = "Search"
    /\ m.state = "List"
    /\ m.searchInput.value = "go"
    /\ m.showArchived
    /\ Len(m.articles) = 1
    /\ Len(ArchiveFiltered(m, store)) = 4

--------------------------------------------------------------------------
(* Keys of the list, pressed in List and in Help. *)

\* every key the list binds, and one it does not
AllKeys ==
    {"q", "ctrl+c", "up", "k", "down", "j", "g", "home", "G", "end", "enter", "a", "i",
     "d", "x", "X", "/", "r", "R", "?", "esc", "z"}

\* C22: any key pressed in Help leaves Help; a key other than the help key
\* gives the state and the command it gives in List from the same state,
\* and the help key only closes the overlay
HelpKeysApplied ==
    m.state = "Help" =>
        \A k \in AllKeys :
            LET h == Update(Here, KeyMsg(k))
                l == Update(World([m EXCEPT !.state = "List"], store, ext), KeyMsg(k))
            IN /\ h.m.state # "Help"
               /\ k # "?" => h = l
               /\ k = "?" => h = World([m EXCEPT !.state = "List", !.suppressQuit = FALSE],
                                       store, ext)

\* the archive key, pressed in Help, closed the help and archived the
\* selected article
ArchivedFromHelp ==
    /\ last.type = "Key"
    /\ last.from = "Help"
    /\ m.state = "List"
    /\ HasPrefix(m.statusMsg, "Archived ")

\* C23: a key handled in List first clears the status message and the
\* error: the step gives what it gives from the same state without a
\* banner, so a status or an error after it is the key's own
BannerNotCarried ==
    m.state = "List" =>
        \A k \in AllKeys :
            Update(Here, KeyMsg(k)) =
                Update(World([m EXCEPT !.statusMsg = "", !.err = ""], store, ext), KeyMsg(k))

\* the second of two archive keys in a row replaced the banner of the first
BannerReplaced ==
    /\ last.type = "Key"
    /\ last.from = "List"
    /\ m.state = "List"
    /\ m.statusMsg = "Archived " \o Quoted("Alpha")
    /\ \E a \in store.disk : a.Title = "Delta" /\ IsArchived(a)

--------------------------------------------------------------------------
(* Every view: the user goes from the list into each of the other views    *)
(* and leaves it, while fetches, browser captures and imports run.         *)

ModeKeys == {"a", "/", "d", "?", "esc"}

\* the keys that start background work, and how often the user presses one
ModeStartKeys == {"i", "r", "R"}
MaxStarted == 1

\* reloads, captures and imports started so far
Started == Len(hist.gens) + hist.gathers + ext.nwin + CopiesIn(openInSafari(ArticleA.SourceURL), cmds)

\* the URL of an article that is on disk: submitting it asks to overwrite
ModeTexts == {"alpha.com/a"}

NextModes ==
    \/ \E k \in ModeKeys : PressKey(k)
    \/ \E k \in ModeStartKeys : Started < MaxStarted /\ PressKey(k)
    \/ m.state # "List" /\ PressKey("enter")
    \/ \E t \in ModeTexts : m.state = "AddURL" /\ TypeText(t)
    \/ \E c \in Fetches : FetchFails(c)
    \/ \E c \in BagToSet(cmds) : SafariOpens(c)
    \/ \E c \in BagToSet(cmds) : TabsGathered(c, MaxImportLen, 0)
    \/ ManifestEditorExits(MaxImportLen, "")
    \/ \E c \in BagToSet(cmds) : ImportItemRuns(c)
    \/ \E msg \in BagToSet(inbox) : Deliver(msg)
    \/ TickArrives

SpecModes == InitWith({{ArticleA}}, {TRUE}, {TRUE}) /\ [][NextModes]_vars

OtherViews ==
    {"AddURL", "Loading", "Search", "ConfirmOverwrite", "ConfirmDelete", "GatheringTabs",
     "Importing", "SafariWaiting", "Help"}

\* C24: from every view other than List, esc moves the view to List in
\* that one step, whatever runs in the background
EscReturnsToList ==
    m.state # "List" =>
        /\ m.state \in OtherViews
        /\ Update(Here, KeyMsg("esc")).m.state = "List"

\* esc left a view while a command it had started was running
LeftWhileRunning ==
    /\ last.type = "Key"
    /\ last.from \in {"Loading", "GatheringTabs", "Importing", "SafariWaiting"}
    /\ m.state = "List"
    /\ Running(cmds) > 0

\* C25: in Loading a key other than cancel and quit changes nothing and
\* dispatches nothing; cancel and quit go to List and increment fetchGen,
\* dispatch no quit and arm the filter of QuitMsg
LoadingHonoursCancelOnly ==
    m.state = "Loading" =>
        \A k \in AllKeys \cup {"y", "n"} :
            LET w == Update(Here, KeyMsg(k))
            IN IF k \in {"esc", "q", "ctrl+c"}
               THEN /\ w.m.state = "List"
                    /\ w.m.fetchGen = m.fetchGen + 1
                    /\ w.out = <<>>
                    /\ ~InListState(w.m)
                    /\ w.store = store
               ELSE w = Here

\* a key cancelled Loading while the fetch was running
LoadingCancelled ==
    /\ last.type = "Key"
    /\ last.from = "Loading"
    /\ m.state = "List"
    /\ m.fetchGen = 2
    /\ Fetches # {}
    /\ ~quit

\* the views ctrl+c cancels
CancelViews == OtherViews \ {"Help"}

\* C27: a ctrl+c that moves the view from a view other than List to List
\* leaves suppressQuit true, so InListState is false for the QuitMsg that
\* follows
CtrlCSuppressesQuit ==
    m.state \in CancelViews =>
        LET w == Update(Here, KeyMsg("ctrl+c"))
        IN w.m.state = "List" => w.m.suppressQuit /\ ~InListState(w.m)

--------------------------------------------------------------------------
(* Interrupts: the user reloads the article and cancels the reload with    *)
(* ctrl+c, and presses no key while the interrupt it raised is pending.    *)

NextInterrupt ==
    \/ ~sigint /\ m.state = "List" /\ PressKey("r")
    \/ ~sigint /\ m.state = "Loading" /\ PressKey("ctrl+c")
    \/ \E c \in Fetches : FetchFails(c)
    \/ \E c \in Fetches, t \in SafariTitles : FetchSucceeds(c, t)
    \/ \E h \in BrowseHeights : Resize(h)
    \/ TickArrives
    \/ InterruptArrives

SpecInterrupt == InitWith({{ArticleA}}, {TRUE}, {TRUE}) /\ [][NextInterrupt]_vars

\* C26: the QuitMsg of the interrupt that follows a ctrl+c which cancelled
\* Loading is filtered out, whatever ticks, stale completions and resizes
\* are handled between the two: the application does not terminate
InterruptFiltered == [][sigint /\ ~sigint' => ~quit']_vars

--------------------------------------------------------------------------
(* The event loop and the commands beside it. *)

\* a step outside the event loop: a command's goroutine, an editor, the
\* browser
OutsideLoop == last'.type = "none"

\* C28: nothing outside the event loop mutates state the loop reads: a
\* background command only adds its completion message, and does not write
\* the session state or the store's cached article list
LoopOwnsState == [][OutsideLoop => m' = m /\ store'.articles = store.articles]_vars

\* the list the search query and the archive filter give from a store
Materialized(mm, st) ==
    SelectSeq(IF mm.searchInput.value # "" THEN Search(st, mm.searchInput.value) ELSE List(st),
              LAMBDA a : mm.showArchived \/ ~IsArchived(a))

\* a step of the event loop that deleted, saved or re-tagged an article
LoopChangedStore == last'.type \notin {"none", "launch", "Quit"} /\ store'.disk # store.disk

\* C29: in List after a step of the event loop that deleted, saved or
\* re-tagged an article, the list is the search and archive filter applied
\* to the store's current contents, so it holds no article deleted from
\* the store
ListFollowsStore ==
    [][LoopChangedStore /\ m'.state = "List" =>
         /\ m'.articles = Materialized(m', store')
         /\ \A i \in 1..Len(m'.articles) : OnDisk(store', m'.articles[i].FilePath)]_vars

--------------------------------------------------------------------------
(* Editor panes: in tmux with vim, the user opens articles and leaves the  *)
(* editor.                                                                 *)

PaneKeys == {"enter", "down", "up"}

NextPanes ==
    \/ \E k \in PaneKeys : PressKey(k)
    \/ \E p \in ext.panes, l \in EditorLines : PaneEditorExits(p, l)
    \/ \E msg \in BagToSet(inbox) : Deliver(msg)

SpecPanes == InitWith({{ArticleA, ArticleD}}, {TRUE}, {TRUE}) /\ [][NextPanes]_vars

\* C30: in tmux with vim, opening an article while a pane this session
\* opened is alive switches the file in that pane and spawns no second
\* pane, for every interleaving of open keys and editorFinished messages;
\* at most one pane the session opened is alive
OnePaneReused ==
    /\ Cardinality(ext.panes) <= 1
    /\ m.state = "List" /\ ~NoSelection(m) /\ ext.panes # {} =>
         LET w == Update(Here, KeyMsg("enter"))
         IN /\ w.ext.npane = ext.npane
            /\ Cardinality(w.ext.panes) = 1
            /\ w.out = <<>>

--------------------------------------------------------------------------
(* Quitting: the user opens articles in editor panes and quits from the    *)
(* list.                                                                   *)

NextQuit ==
    \/ NextPanes
    \/ PressKey("q")
    \/ QuitArrives

SpecQuit == InitWith({{ArticleA, ArticleD}}, {TRUE}, {TRUE}) /\ [][NextQuit]_vars

\* C31: when the application has quit from List, the editor pane the
\* session opened and tracks by tmuxPaneID is not left alive
PanesKilledOnQuit == quit => ~tmuxPaneAlive(ext, m.tmuxPaneID)

--------------------------------------------------------------------------
(* The position file: editors write it, and so may anything else that      *)
(* runs beside the session.                                                *)

AlphaFile == GetFilePath(ArticleA.FilePath)

\* contents with a known article and a positive line
GoodPositions ==
    {[text |-> AlphaFile \o ":7\n", path |-> ArticleA.FilePath, line |-> 7],
     [text |-> " " \o AlphaFile \o ":12\r\n", path |-> ArticleA.FilePath, line |-> 12]}

\* contents without the form path:line, with a line that is no positive
\* number, or with a path that is no article
BadPositions ==
    {"", "\n", AlphaFile, AlphaFile \o ":", AlphaFile \o ":x", AlphaFile \o ":0",
     AlphaFile \o ":-3", AlphaFile \o ":7:3", AlphaFile \o ": 7",
     GetFilePath("articles/zeta/index.md") \o ":7", "/data/notes.md:7"}

PositionTexts == {g.text : g \in GoodPositions} \cup BadPositions

\* something writes the position file
PositionFileWritten(t) ==
    /\ ext.posFile # t
    /\ Outside(store, [ext EXCEPT !.posFile = t], cmds, inbox, fg)
    /\ hist' = hist

NextPosition ==
    \/ \E k \in {"enter", "down"} : PressKey(k)
    \/ \E p \in ext.panes, l \in EditorLines : PaneEditorExits(p, l)
    \/ \E t \in PositionTexts : inbox # EmptyBag /\ PositionFileWritten(t)
    \/ \E msg \in BagToSet(inbox) : Deliver(msg)

SpecPosition == InitWith({{ArticleA, ArticleD}, {ArticleD}}, {TRUE}, {TRUE}) /\ [][NextPosition]_vars

\* the session when the position file holds t
WithPosition(t) == World(m, store, [ext EXCEPT !.posFile = t])

\* C32: a position file that is missing, is not path:line, has a line that
\* is not a positive number, or names no known article writes no progress,
\* sets no error and leaves the view state; progress is written only for
\* the article whose absolute path matches, with the positive line parsed
PositionBestEffort ==
    /\ savePositionFromFile(WithPosition(None)) = WithPosition(None)
    /\ \A t \in BadPositions :
           LET w == savePositionFromFile(WithPosition(t))
           IN w.store = store /\ w.m.err = m.err /\ w.m.state = m.state /\ w.out = <<>>
    /\ \A g \in GoodPositions :
           LET w == savePositionFromFile(WithPosition(g.text))
           IN /\ w.store.disk =
                    {IF a.FilePath = g.path THEN [a EXCEPT !.Progress = g.line] ELSE a :
                       a \in store.disk}
              /\ w.m.err = m.err /\ w.m.state = m.state /\ w.out = <<>>

\* the editor has finished and the line a position file gave is the
\* article's progress
ProgressFromFile ==
    /\ last.type = "editorFinished"
    /\ ext.posFile = None
    /\ \E a \in store.disk : a.FilePath = ArticleA.FilePath /\ a.Progress = 12

--------------------------------------------------------------------------
(* Tab gathering. *)

\* the results safari.GatherTabs can deliver
GatherResults ==
    {[Msg("safariTabsGathered") EXCEPT !.tabs = t, !.warnings = wn] :
       t \in TabCounts, wn \in {0, 1}}

\* a tab gathering the user cancelled is still running
GatherCancelled == m.state # "GatheringTabs" /\ \E c \in BagToSet(cmds) : c.cmd = "gatherTabs"

\* C33: after the user cancelled out of GatheringTabs, the late result of
\* the tab gathering changes no state, writes no manifest and launches no
\* editor
LateGatherChangesNothing ==
    GatherCancelled =>
        \A msg \in GatherResults :
            LET w == Update(Here, msg)
            IN /\ w.m.state = m.state
               /\ w.m.err = m.err
               /\ w.m.statusMsg = m.statusMsg
               /\ w.store = store
               /\ w.out = <<>>

--------------------------------------------------------------------------
(* Browser capture, cancelled: the user asks for a Safari reload and       *)
(* cancels it, and never submits.                                          *)

CaptureKeys == {"R", "esc", "ctrl+c", "?", "down"}

NextCapture ==
    \/ \E k \in CaptureKeys : PressKey(k)
    \/ \E c \in BagToSet(cmds) : SafariOpens(c)
    \/ \E c \in BagToSet(cmds) : SafariOpenFails(c)
    \/ \E msg \in BagToSet(inbox) : Deliver(msg)
    \/ \E h \in BrowseHeights : Resize(h)

SpecCapture == InitWith({{ArticleA, ArticleD}}, {TRUE}, {TRUE}) /\ [][NextCapture]_vars

\* no request to the browser is running and no answer of it waits
SafariQuiet ==
    /\ \A c \in BagToSet(cmds) : c.cmd \notin {"openSafari", "safariHTML"}
    /\ \A msg \in BagToSet(inbox) : msg.type \notin {"safariOpened", "safariHTMLExtracted"}

\* every cancelled request is over: its window is closed and the session
\* holds no handle
CancelledWindowClosed ==
    m.state \in {"List", "Help"} /\ SafariQuiet => ext.windows = {} /\ m.safariWindow = 0

\* the window-opened event of a cancelled request changes neither the view
\* state nor the error
LateOpenedIgnored ==
    last'.type = "safariOpened" /\ m.state # "SafariWaiting" =>
        m'.state = m.state /\ m'.err = m.err

\* C34: after AwaitingExternalBrowser is cancelled, every browser window
\* opened for the request ends up closed and the session holds no handle,
\* also when the cancel is handled before the window-opened event; the
\* late window-opened event changes neither the view state nor the error
CancelClosesWindow == []CancelledWindowClosed /\ [][LateOpenedIgnored]_vars

\* safari.GatherTabs found no tab, with wn warnings
ZeroTabs(wn) == [Msg("safariTabsGathered") EXCEPT !.tabs = 0, !.warnings = wn]

\* C35: when tab gathering completes in GatheringTabs with zero tabs, the
\* view goes to List, no editor is launched and no import starts; with a
\* warning an error is set and no status message, without warnings a
\* neutral status message is set and no error
ZeroTabsReported ==
    m.state = "GatheringTabs" =>
        /\ \A wn \in {0, 1} :
               LET w == Update(Here, ZeroTabs(wn))
               IN w.m.state = "List" /\ w.out = <<>> /\ w.store = store
        /\ LET w == Update(Here, ZeroTabs(1))
           IN w.m.err # "" /\ w.m.statusMsg = ""
        /\ LET w == Update(Here, ZeroTabs(0))
           IN w.m.statusMsg = "No Safari tabs found" /\ w.m.err = ""

\* the user deletes an article and starts an import at once; Safari has no
\* tab, or MaxImportLen tabs of which the user takes none
GatherKeys == {"d", "y", "i", "esc"}

NextGather ==
    \/ \E k \in GatherKeys : PressKey(k)
    \/ \E c \in BagToSet(cmds) : DeletedArrives(c)
    \/ \E c \in BagToSet(cmds), t \in TabCounts, wn \in {0, 1} : TabsGathered(c, t, wn)
    \/ ManifestEditorExits(0, "")
    \/ \E msg \in BagToSet(inbox) : Deliver(msg)
    \/ TickArrives

SpecGather == InitWith({{ArticleA, ArticleD}}, {TRUE}, {TRUE}) /\ [][NextGather]_vars

\* C35, amended: as above, but with a warning the status message is left
\* as it was; a message set while the tabs were gathered stays under the
\* error
ZeroTabsReportedOverStatus ==
    m.state = "GatheringTabs" =>
        /\ \A wn \in {0, 1} :
               LET w == Update(Here, ZeroTabs(wn))
               IN w.m.state = "List" /\ w.out = <<>> /\ w.store = store
        /\ LET w == Update(Here, ZeroTabs(1))
           IN w.m.err # "" /\ w.m.statusMsg = m.statusMsg
        /\ LET w == Update(Here, ZeroTabs(0))
           IN w.m.statusMsg = "No Safari tabs found" /\ w.m.err = ""

\* no tab was found, with a warning, after an article's deletion was
\* reported during the gathering
ZeroTabsAfterDelete ==
    /\ last.type = "safariTabsGathered"
    /\ last.from = "GatheringTabs"
    /\ m.state = "List"
    /\ HasPrefix(m.err, "no Safari tabs found")
    /\ m.statusMsg = "Article deleted"

--------------------------------------------------------------------------
(* The cursor and the viewport, in every state. *)

CursorKeys == {"down", "end", "d", "y", "x", "X", "/"}

NextCursor ==
    \/ \E k \in CursorKeys : m.state # "Search" /\ PressKey(k)
    \/ \E k \in {"enter", "esc"} : m.state = "Search" /\ PressKey(k)
    \/ \E t \in SearchQueries : m.state = "Search" /\ TypeText(t)
    \/ \E c \in BagToSet(cmds) : DeletedArrives(c)

SpecCursor == InitWith({{ArticleA, ArticleB, ArticleC, ArticleD}}, {TRUE}, {TRUE}) /\ [][NextCursor]_vars

ViewportHolds == InView(m.cursor, m.scrollPos, calcVisibleItems(m), Len(m.articles))

--------------------------------------------------------------------------
(* Loading and the operations it waits for. *)

\* completions of the current generation: of a fetch still running, or
\* delivered and not handled yet
CurrentCompletions ==
    UNION {Completions(c) : c \in {f \in Fetches : f.gen = m.fetchGen}}
    \cup {msg \in BagToSet(inbox) :
            msg.type \in {"articleExtracted", "extractionErr"} /\ msg.gen = m.fetchGen}

\* C38: a fetch completion is honoured (its generation is fetchGen) only
\* while the view is Loading: outside Loading no completion of the current
\* generation is pending, so no result is saved and no editor opened from
\* List, AddURL, Search or any other state
HonouredOnlyInLoading == CurrentCompletions # {} => m.state = "Loading"

\* C39: extractSafariHTML is never dispatched without an open window: when
\* Enter is pressed in SafariWaiting the window handle is not nil, Enter
\* before the window-opened event included
ExtractHasWindow ==
    m.state = "SafariWaiting" =>
        \E w \in {Update(Here, KeyMsg("enter"))} :
            \A i \in 1..Len(w.out) :
                w.out[i].cmd = "safariHTML" =>
                    m.safariWindow # 0 /\ w.out[i].window \in ext.windows

\* reloads and captures the user starts in a session that is left to run
MaxLoads == 2

\* the user starts reloads and captures from the list, submits or cancels a
\* capture, answers the overwrite question, and presses nothing in Loading
NextLoading ==
    \/ \E k \in {"r", "R"} : Started < MaxLoads /\ PressKey(k)
    \/ \E k \in {"enter", "esc"} : m.state = "SafariWaiting" /\ PressKey(k)
    \/ \E k \in {"y", "n"} : m.state = "ConfirmOverwrite" /\ PressKey(k)
    \/ \E c \in Fetches : FetchFails(c)
    \/ \E c \in Fetches, t \in FetchTitles : FetchSucceeds(c, t)
    \/ \E c \in BagToSet(cmds) : SafariOpens(c)
    \/ \E c \in BagToSet(cmds) : SafariOpenFails(c)
    \/ \E c \in BagToSet(cmds) : SafariSourceRead(c)
    \/ \E c \in BagToSet(cmds) : SafariSourceFails(c)
    \/ \E p \in ext.panes, l \in EditorLines : PaneEditorExits(p, l)
    \/ \E msg \in BagToSet(inbox) : Deliver(msg)
    \/ TickArrives

\* every dispatched operation ends
FetchEnds == \E c \in Fetches : FetchFails(c) \/ \E t \in FetchTitles : FetchSucceeds(c, t)

SafariEnds ==
    \E c \in BagToSet(cmds) :
        SafariOpens(c) \/ SafariOpenFails(c) \/ SafariSourceRead(c) \/ SafariSourceFails(c)

\* and the event loop handles the browser's messages that wait
SourceHandled ==
    \E msg \in BagToSet(inbox) :
        msg.type \in {"safariOpened", "safariHTMLExtracted"} /\ Deliver(msg)

SpecLoading ==
    /\ InitWith({{ArticleA, ArticleB}}, {TRUE}, {TRUE})
    /\ [][NextLoading]_vars
    /\ WF_vars(FetchEnds)
    /\ WF_vars(SafariEnds)
    /\ WF_vars(SourceHandled)

\* operations running, or ended and not handled yet, whose completion the
\* event loop honours: a fetch of the current generation, the read of the
\* browser's page source
HonouredOperations ==
    CurrentCompletions
    \cup {c \in BagToSet(cmds) : c.cmd = "safariHTML"}
    \cup {msg \in BagToSet(inbox) : msg.type = "safariHTMLExtracted"}

LoadingHasOperation == m.state = "Loading" => HonouredOperations # {}

\* C40: Loading never gets stuck: whenever the view is Loading an operation
\* is in flight whose completion will be honoured, and when every dispatched
\* operation ends and the user presses nothing the view leaves Loading, to
\* List or to ConfirmOverwrite
LoadingEnds ==
    /\ []LoadingHasOperation
    /\ (m.state = "Loading") ~> (m.state \in {"List", "ConfirmOverwrite"})

\* the fetch of the page source's extraction ended in Loading and its title
\* is on disk: the view asks to overwrite
LoadingAnswered ==
    /\ last.type = "articleExtracted"
    /\ last.from = "Loading"
    /\ last.gen = m.fetchGen
    /\ m.state = "ConfirmOverwrite"
    /\ ext.nwin = 1

====
